---- MODULE Spec2Model ----
(***************************************************************************)
(* Model of the Launchpad light animator of stharrold/clubmaquis            *)
(* (scripts/setup/launchpad_lights.py): one LaunchpadLights instance, the   *)
(* controlling thread that calls connect / start / stop / disconnect on it, *)
(* the render threads start() creates, the MIDI ports connect() opens and   *)
(* the LED state of the device the messages reach; one run of the hunt      *)
(* pattern; and one run of a session script (scripts/setup/recording.py,    *)
(* scripts/shutdown/main.py) from its entry to its exit code.               *)
(***************************************************************************)
EXTENDS Integers, Sequences, FiniteSets, TLC

VARIABLES
    mido,        \* the mido module was importable (module global `mido` is not None)
    logger,      \* the instance was constructed with a logger (self.logger)
    outport,     \* self._outport: 0 for None, else the id of the port it refers to
    running,     \* self._running
    thread,      \* self._thread: 0 for None, else the id of the thread it refers to
    tpc,         \* per render thread: where it is in _run_hunt_loop / _run_random_patterns
    tmode,       \* per render thread: the pattern argument start() was given
    tpat,        \* per render thread: the pattern function it is running
    portState,   \* per port: "unopened", "open" or "closed"
    closeCalls,  \* per port: how many times close() was called on it
    lit,         \* the device: notes whose last delivered note_on has velocity # 0
    mode,        \* the device: layout selected by the last delivered SysEx
    exitSent,    \* an exit-programmer-mode SysEx was delivered since the last thread was created
    mpc,         \* the controlling thread: "idle" or its position inside stop()/disconnect()
    cur,         \* the stop() or disconnect() in progress on the controlling thread
    lastCall,    \* the most recent call that ended, with how it ended
    prevCall,    \* the call that ended before lastCall
    ncalls,      \* public calls made so far
    \* One run of _pattern_hunt (its local variables):
    snake,         \* the snake, head first: a sequence of (row, column) pairs
    snake_dir,     \* the direction of the snake's last choice
    dot,           \* the dot's (row, column)
    dot_color_idx, \* index into COOL_COLORS of the dot's colour
    since_dot,     \* snake ticks since the dot's timer was last reset
    tick,          \* what the last tick of the run did
    \* One run of a session script (scripts/setup/recording.py, scripts/shutdown/main.py):
    command,         \* the script that is run: "none", "setup" or "shutdown"
    cpc,             \* the sub-step the script is about to do, or "returned"
    launchpad_check, \* setup: the status check_launchpad logged
    failures,        \* setup: main()'s local `failures`
    errors_occurred, \* shutdown: run_shutdown()'s local `errors_occurred`
    qt_files,        \* shutdown: per recording type, how many files were found on the Desktop
    moved_files,     \* shutdown: how many files move_quicktime_files returned as moved
    failed,          \* the sub-steps that have failed so far in this run
    exit_code,       \* the exit code main() returned; -1 while it has not returned
    session_id,      \* shutdown: the session-id argument, as a sequence of characters
    session_dir_exists, \* shutdown: get_session_dir(session_id) exists
    \* One log file and the loggers constructed on it (scripts/common/logger.py,
    \* src/clubmaquis/session_logger.py):
    log_exists,      \* the log file exists
    log_file,        \* the records of the log file, in file order
    log_new,         \* the file did not exist before a logger first wrote to it
    loggers,         \* the logger objects constructed so far
    log_call,        \* the most recent constructor or log call, with how it ended
    \* The standalone runner (scripts/setup/run_lights.py), on the same
    \* LaunchpadLights instance:
    rpc,             \* where main() is, "none" when the runner is not run
    hpc,             \* where the innermost running shutdown_handler is, or "none"
    rexc,            \* the exception pending while main()'s finally block runs
    signals,         \* SIGTERM / SIGINT delivered so far
    sentOnClosed,    \* send() was called on a port after its close()
    portActors,      \* who called send() or close() on the open port
    \* The files shutdown relocates (move_quicktime_files of
    \* scripts/shutdown/main.py, copy_project_files of scripts/shutdown/ableton.py):
    session_dir_files, \* per file name of the session directory: what the file holds
    at_source,         \* the found files that are still where they were found
    reloc,             \* the locals of the relocation function that runs or has returned
    \* One call of wait_for_files_stable (scripts/shutdown/utils.py):
    desktop,           \* per file matching the pattern: its size (-1: absent) and when it changed
    wait,              \* the call's clock and locals, and what it returned
    \* One call of quit_app (scripts/shutdown/utils.py):
    app_running,       \* the application's process exists
    quit,              \* the call's arguments and locals, and what it returned
    \* One run of a pattern function of LaunchpadLights, frame by frame:
    walk,              \* _pattern_snake / _pattern_spiral: the order built and the loop's locals
    sparkle            \* _pattern_sparkle: the keys of active_pads; the pads whose last
                       \* message of the run was a color; a color was sent to an active pad

lightsVars == <<mido, logger, outport, running, thread, tpc, tmode, tpat, portState,
                closeCalls, lit, mode, exitSent, mpc, cur, lastCall, prevCall, ncalls>>

huntVars == <<snake, snake_dir, dot, dot_color_idx, since_dot, tick>>

sessionVars == <<command, cpc, launchpad_check, failures, errors_occurred, qt_files,
                 moved_files, failed, exit_code, session_id, session_dir_exists>>

logVars == <<log_exists, log_file, log_new, loggers, log_call>>

runnerVars == <<rpc, hpc, rexc, signals, sentOnClosed, portActors>>

\* The variables that were added to the model after the lifecycle, the hunt,
\* the session scripts and the loggers.
filesVars == <<session_dir_files, at_source, reloc>>

waitVars == <<desktop, wait>>

quitVars == <<app_running, quit>>

patternVars == <<walk, sparkle>>

extraVars == <<runnerVars, filesVars, waitVars, quitVars, patternVars>>

vars == <<lightsVars, huntVars, sessionVars, logVars, extraVars>>

----------------------------------------------------------------------------
(* Bounds of the model *)

MaxCalls == 3      \* public calls per behaviour
MaxThreads == 2    \* render threads created per behaviour
MaxPorts == 2      \* ports opened per behaviour
MaxColorDraw == 2  \* largest colour index random.randint is followed to in a hunt run
MaxRecordings == 2 \* recordings of one type found on the Desktop at shutdown
MaxLogRecords == 3 \* records in the log file
MaxSignals == 2    \* SIGTERM / SIGINT delivered to the standalone runner
MaxFound == 2      \* files of one kind found by one relocation step
MaxWaitTicks == 4  \* timeout_seconds of wait_for_files_stable, in sleeps of 0.5 s
StabilityTicks == 2 \* stability_seconds of wait_for_files_stable, in sleeps of 0.5 s
MaxSize == 2       \* largest file size a recording is followed to
MaxQuitTicks == 7  \* largest termination_timeout of quit_app, in quarters of a second

Threads == 1..MaxThreads
Ports == 1..MaxPorts

----------------------------------------------------------------------------
(* Constant tables of launchpad_lights.py *)

PAD_GRID ==
    << <<81, 82, 83, 84, 85, 86, 87, 88>>,
       <<71, 72, 73, 74, 75, 76, 77, 78>>,
       <<61, 62, 63, 64, 65, 66, 67, 68>>,
       <<51, 52, 53, 54, 55, 56, 57, 58>>,
       <<41, 42, 43, 44, 45, 46, 47, 48>>,
       <<31, 32, 33, 34, 35, 36, 37, 38>>,
       <<21, 22, 23, 24, 25, 26, 27, 28>>,
       <<11, 12, 13, 14, 15, 16, 17, 18>> >>

WARM_COLORS == <<3, 13, 9, 6, 5>>

ALL_COLORS == <<5, 9, 13, 17, 21, 25, 29, 33, 37, 41, 45, 49, 53, 57>>

\* PAD_GRID[r][c] with Python's indexing: rows and columns from 0, and a
\* negative column index counting from the end of the row.
PadNote(r, c) == PAD_GRID[r + 1][IF c < 0 THEN c + 9 ELSE c + 1]

\* The order in which _clear_all_leds sends its 72 note_on(note, 0) messages:
\* the grid row by row, then the top-row buttons 91..98.
ClearOrder ==
    [i \in 1..72 |->
        IF i <= 64 THEN PadNote((i - 1) \div 8, (i - 1) % 8) ELSE 90 + (i - 64)]

Notes == {ClearOrder[i] : i \in 1..72}

\* The pattern functions _run_random_patterns chooses from.
Patterns == {"snake", "sparkle", "rain", "spiral", "wave", "diagonal", "expand", "hunt"}

\* The pattern argument of start().
Modes == {"hunt", "random"}

Range(s) == {s[i] : i \in 1..Len(s)}


----------------------------------------------------------------------------
(* What the patterns draw *)

snake_length == 5

\* _pattern_hunt's initial snake: [(3, 3 - i) for i in range(snake_length)].
InitSnake == [i \in 1..snake_length |-> <<3, 3 - (i - 1)>>]

\* One cell _spawn_dot_away_from can return for the initial snake.
SampleDot == <<0, 3>>

\* The notes a pattern lights in its first frame, in the order it sends them,
\* with the pattern's random draws fixed (rain: a drop in column 0; sparkle:
\* the pad PAD_GRID[0][0]; hunt: the dot at SampleDot).
FirstFrame(p) ==
    CASE p = "hunt" ->
            [i \in 1..snake_length |-> PadNote(InitSnake[i][1], InitSnake[i][2])]
                \o <<PadNote(SampleDot[1], SampleDot[2])>>
      [] p = "wave" ->
            [i \in 1..24 |-> PadNote((i - 1) % 8, (8 - ((i - 1) \div 8)) % 8)]
      [] p = "expand" ->
            <<PadNote(3, 3), PadNote(3, 4), PadNote(4, 3), PadNote(4, 4)>>
      [] OTHER -> <<PadNote(0, 0)>>

\* Every pattern but sparkle calls _clear_all_leds at the start of each frame.
ClearsEachFrame(p) == p # "sparkle"

----------------------------------------------------------------------------
(* Sending on the port *)

\* `if self._outport:` holds and the port it refers to is open.
DeviceOpen == outport # 0 /\ portState[outport] = "open"

ClearPrefix(l, k) == l \ {ClearOrder[i] : i \in 1..k}

\* How many sends of a run of n sends return before one raises: the failing
\* send is taken to be the first or the last of the run.
FailPoints(n) == IF n = 0 THEN {} ELSE {0, n - 1}

DrawPrefix(f, k) == {f[i] : i \in 1..k}

\* The outcomes of sending, through _send_note_on, an optional _clear_all_leds
\* followed by note_on messages of non-zero velocity for the notes of `frame`:
\* ok tells whether every send returned, lit is the device's lit set afterwards.
\* With no port handle every message is dropped; a send on an open port is
\* delivered or raises a device error; a send on a closed port raises.
NoteOutcomes(clearFirst, frame) ==
    IF outport = 0 THEN {[ok |-> TRUE, lit |-> lit]}
    ELSE IF portState[outport] # "open"
    THEN {[ok |-> (~clearFirst /\ frame = <<>>), lit |-> lit]}
    ELSE LET base == IF clearFirst THEN {} ELSE lit
         IN  {[ok |-> TRUE, lit |-> base \cup Range(frame)]}
             \cup (IF clearFirst
                   THEN {[ok |-> FALSE, lit |-> ClearPrefix(lit, k)] : k \in FailPoints(72)}
                   ELSE {})
             \cup {[ok |-> FALSE, lit |-> base \cup DrawPrefix(frame, k)] :
                      k \in FailPoints(Len(frame))}

\* The outcomes of one _send_sysex: dropped without a port handle, delivered
\* or raising on an open port, raising on a closed one.
SysexOutcomes ==
    IF outport = 0 THEN {"dropped"}
    ELSE IF portState[outport] = "open" THEN {"sent", "raised"}
    ELSE {"raised"}

\* The outcomes of one self._log(...): nothing without a logger; with one,
\* JSONLLogger.log writes the entry or raises OSError.
LogOutcomes == IF logger THEN {"written", "raised"} ELSE {"skipped"}

LogCount(o) == IF o = "written" THEN 1 ELSE 0

----------------------------------------------------------------------------
(* The hunt pattern: the snake, the dot and the functions that move them *)

\* Snake movement directions (up, down, left, right).
SNAKE_DIRS == << <<-1, 0>>, <<1, 0>>, <<0, -1>>, <<0, 1>> >>

\* Dot movement directions (all 8).
DOT_DIRS == << <<-1, 0>>, <<1, 0>>, <<0, -1>>, <<0, 1>>,
               <<-1, -1>>, <<-1, 1>>, <<1, -1>>, <<1, 1>> >>

\* Forbidden dot positions (3 cells in each corner).
DOT_FORBIDDEN ==
    { <<0, 0>>, <<0, 1>>, <<1, 0>>,  <<0, 7>>, <<0, 6>>, <<1, 7>>,
      <<7, 0>>, <<6, 0>>, <<7, 1>>,  <<7, 7>>, <<7, 6>>, <<6, 7>> }

COOL_COLORS == <<37, 41, 45, 49, 53, 33, 29, 25, 21>>

\* The (row, column) pairs of the 8x8 grid.
Grid == {<<r, c>> : r \in 0..7, c \in 0..7}

\* A step that is not clamped.
Unclamped(x) == x

\* max(0, min(7, x))
Clamp(x) == IF x < 0 THEN 0 ELSE IF x > 7 THEN 7 ELSE x

Abs(x) == IF x < 0 THEN -x ELSE x

\* The cell one step of d from cell p, clamped to the grid bounds.
ClampedStep(p, d) == <<Clamp(p[1] + d[1]), Clamp(p[2] + d[2])>>

\* snake[1:]
Body(s) == {s[i] : i \in 2..Len(s)}

\* A dot that may go anywhere.
any_cell(p) == TRUE

\* A cell that passes `(r, c) not in DOT_FORBIDDEN`.
allowed_for_dot(p) == p \notin DOT_FORBIDDEN

\* A snake that does not look at its body.
body_ignored(p, s) == TRUE

\* A snake that only avoids turning back onto its neck.
off_neck(p, s) == p # s[2]

\* `x not in snake[1:]`, of _choose_snake_direction and of the snake's move.
off_body(p, s) == p \notin Body(s)

\* A spawn that accepts its first draw.
spawn_anywhere(s) == Grid

\* _spawn_dot_away_from: the cells it can return (any cell of the grid that
\* is neither of the snake nor forbidden; the distance test only makes near
\* cells less likely).
spawn_dot_away_from(s) == {p \in Grid : p \notin Range(s) /\ allowed_for_dot(p)}

\* A snake that does not look at the dot.
no_score(d, row_diff, col_diff) == 0

\* A snake that scores the directions leading away from the dot.
away_score(d, row_diff, col_diff) ==
    (IF row_diff > 0 /\ d[1] < 0 THEN Abs(row_diff)
     ELSE IF row_diff < 0 /\ d[1] > 0 THEN Abs(row_diff) ELSE 0)
    + (IF col_diff > 0 /\ d[2] < 0 THEN Abs(col_diff)
       ELSE IF col_diff < 0 /\ d[2] > 0 THEN Abs(col_diff) ELSE 0)

\* score_dir of _choose_snake_direction.
score_dir(d, row_diff, col_diff) ==
    (IF row_diff > 0 /\ d[1] > 0 THEN Abs(row_diff)
     ELSE IF row_diff < 0 /\ d[1] < 0 THEN Abs(row_diff) ELSE 0)
    + (IF col_diff > 0 /\ d[2] > 0 THEN Abs(col_diff)
       ELSE IF col_diff < 0 /\ d[2] < 0 THEN Abs(col_diff) ELSE 0)

\* valid_dirs of _choose_snake_direction: not blocked by wall or body.
valid_dirs(head, s) ==
    SelectSeq(SNAKE_DIRS,
              LAMBDA d : /\ head[1] + d[1] \in 0..7
                         /\ head[2] + d[2] \in 0..7
                         /\ off_body(<<head[1] + d[1], head[2] + d[2]>>, s))

\* _choose_snake_direction: the directions it can return. The sort by score
\* is stable, so scored[0] is the first direction of the best score and
\* scored[1] the first of the best score among the others; the coin is
\* tossed only when the two scores are equal.
choose_snake_direction(head, d, current_dir, s) ==
    LET row_diff == d[1] - head[1]
        col_diff == d[2] - head[2]
        v == valid_dirs(head, s)
        n == Len(v)
        score(i) == score_dir(v[i], row_diff, col_diff)
        FirstBest(I) == CHOOSE i \in I : /\ \A j \in I : score(j) <= score(i)
                                         /\ \A j \in I : j < i => score(j) < score(i)
        first == FirstBest(1..n)
        second == FirstBest((1..n) \ {first})
    IN  IF n = 0 THEN {current_dir}
        ELSE IF n > 1 /\ score(first) = score(second) THEN {v[first], v[second]}
        ELSE {v[first]}

\* A distance that grows as the cells get closer.
nearness(p, q) == 0 - (Abs(p[1] - q[1]) + Abs(p[2] - q[2]))

\* square_distance of _move_dot_away.
square_distance(p, q) == Abs(p[1] - q[1]) + Abs(p[2] - q[2])

\* A dot that takes any of its scored directions, not only the best.
move_dot_unscored(dt, snake_head) ==
    {ClampedStep(dt, DOT_DIRS[i]) : i \in 1..Len(DOT_DIRS)} \ ({dt} \cup DOT_FORBIDDEN)

\* A dot that may also stay where it is.
move_dot_or_stay(dt, snake_head) ==
    {dt} \cup ({ClampedStep(dt, DOT_DIRS[i]) : i \in 1..Len(DOT_DIRS)} \ DOT_FORBIDDEN)

\* _move_dot_away: the cells it can return.
move_dot_away(dt, snake_head) ==
    LET current_dist == square_distance(dt, snake_head)
        scored_dirs == {i \in 1..Len(DOT_DIRS) :
                           /\ ClampedStep(dt, DOT_DIRS[i]) # dt
                           /\ allowed_for_dot(ClampedStep(dt, DOT_DIRS[i]))}
        score(i) == square_distance(ClampedStep(dt, DOT_DIRS[i]), snake_head) - current_dist
        best_dirs == {i \in scored_dirs : \A j \in scored_dirs : score(j) <= score(i)}
    IN  IF scored_dirs = {} THEN {dt}
        ELSE {ClampedStep(dt, DOT_DIRS[i]) : i \in best_dirs}

\* A snake that keeps its tail when it moves.
grow_snake(s, new_head) == <<new_head>> \o s

\* `snake = [new_head] + snake[:-1]`
move_snake(s, new_head) == <<new_head>> \o SubSeq(s, 1, Len(s) - 1)

\* random.randint(0, len(COOL_COLORS) - 1), the draws that are followed.
ColorDraws == {k \in 0..(Len(COOL_COLORS) - 1) : k <= MaxColorDraw}

\* A single draw, whatever the old colour.
one_draw(old_color_idx) == ColorDraws

\* `while dot_color_idx == old_color_idx: dot_color_idx = random.randint(...)`
new_color_idx(old_color_idx) == ColorDraws \ {old_color_idx}

\* The locals of _pattern_hunt before its loop, with the dot spawned at d.
HuntStart(d) ==
    /\ snake = InitSnake
    /\ snake_dir = <<0, 1>>
    /\ dot = d
    /\ dot_color_idx = 0
    /\ since_dot = 0
    /\ tick = [kind |-> "start", moved |-> FALSE, caught |-> FALSE]

----------------------------------------------------------------------------
(* The session scripts: what their sub-steps report *)

\* The recording types shutdown looks for (the keys of QUICKTIME_PATTERNS).
QUICKTIME_PATTERNS == {"screen", "webcam"}

\* The statuses check_launchpad logs, and the Boolean it returns with each.
LaunchpadStatuses == {"connected", "not_found", "error", "timeout"}

check_launchpad(status) == status = "connected"

\* What can happen to one file in move_quicktime_files: shutil.move went
\* through, the destination already existed, or shutil.move raised OSError.
MoveOutcomes == {"moved", "exists", "oserror"}

total_files(q) == q["screen"] + q["webcam"]

\* The length of the list move_quicktime_files returns: only the files
\* shutil.move went through for are appended.
move_quicktime_files(outcome) ==
    Cardinality({i \in DOMAIN outcome : outcome[i] = "moved"})

\* log_failed was called for some file.
move_logged_failure(outcome) == \E i \in DOMAIN outcome : outcome[i] # "moved"

\* The sub-steps that have failed, after `step` ended with `success`.
FailedAfter(step, success) == IF success THEN failed ELSE failed \cup {step}

\* Session-id arguments, as sequences of characters: "0" stands for an
\* ASCII digit, "u" for a decimal digit outside ASCII, "nl" for a newline.
Digits(n, c) == [i \in 1..n |-> c]

WellFormedId == Digits(8, "0") \o <<"T">> \o Digits(6, "0") \o <<"Z">>

SessionIdArgs ==
    { WellFormedId,
      WellFormedId \o <<"nl">>,
      WellFormedId \o <<"nl", "nl">>,
      WellFormedId \o <<"x">>,
      <<"nl">> \o WellFormedId,
      Digits(8, "u") \o <<"T">> \o Digits(6, "0") \o <<"Z">>,
      Digits(8, "0") \o <<"t">> \o Digits(6, "0") \o <<"Z">>,
      Digits(7, "0") \o <<"T">> \o Digits(6, "0") \o <<"Z">>,
      Digits(8, "0") \o <<"T">> \o Digits(6, "0"),
      <<>> }

\* \d of a str pattern: any Unicode decimal digit.
IsDigit(c) == c \in {"0", "u"}

\* SESSION_ID_PATTERN.match(session_id) with the pattern ^\d{8}T\d{6}Z$ :
\* match() anchors at the start, and $ matches at the end of the string and
\* just before a newline that ends the string.
validate_session_id(arg) ==
    /\ Len(arg) >= 16
    /\ \A i \in 1..8 : IsDigit(arg[i])
    /\ arg[9] = "T"
    /\ \A i \in 10..15 : IsDigit(arg[i])
    /\ arg[16] = "Z"
    /\ \/ Len(arg) = 16
       \/ Len(arg) = 17 /\ arg[17] = "nl"

\* The locals of a script on entry; "none" when no script is run.
SessionStart(c) ==
    /\ command = c
    /\ cpc = IF c = "none" THEN "none" ELSE "main"
    /\ launchpad_check = "none"
    /\ failures = 0
    /\ errors_occurred = FALSE
    /\ qt_files = [t \in QUICKTIME_PATTERNS |-> 0]
    /\ moved_files = 0
    /\ failed = {}
    /\ exit_code = -1
    /\ session_id = <<>>
    /\ session_dir_exists = FALSE

----------------------------------------------------------------------------
(* The loggers: JSONLLogger and SessionLogger *)

\* The entry of JSONLLogger._write_schema.
SchemaEntry ==
    [action |-> "log_schema", keys |-> {"timestamp", "action", "schema"}]

\* The entry of JSONLLogger.log(action, **kwargs): a dict with the keys
\* "timestamp" and "action" and those of kwargs.
JSONLEntry(action, kwargs) ==
    [action |-> action, keys |-> {"timestamp", "action"} \cup kwargs]

\* The entry of SessionLogger.log(action, status, message, details):
\* "message" and "details" are set only when the argument is truthy.
SessionEntry(action, message, details) ==
    [action |-> action,
     keys |-> {"timestamp", "action", "status"}
                \cup (IF message THEN {"message"} ELSE {})
                \cup (IF details THEN {"details"} ELSE {})]

\* The log calls that are followed: two of setup's, two of shutdown's.
JSONLCalls ==
    {JSONLEntry("session_created", {"session_id", "session_dir", "log_file"}),
     JSONLEntry("launchpad_check", {"status"})}

SessionCalls ==
    {SessionEntry("session_end", TRUE, TRUE), SessionEntry("ableton_close", TRUE, FALSE)}

\* What a log file found on disk can hold.
OldContents == {<<>>, <<SchemaEntry>>, <<SessionEntry("session_end", TRUE, TRUE)>>}

\* open(mode) and f.write(json.dumps(entry) + "\n"): "w" truncates the
\* file, "a" writes after its last record.
write_entry(file, entry, open_mode) ==
    IF open_mode = "w" THEN <<entry>> ELSE Append(file, entry)

\* A constructor that writes the schema whenever it is asked to.
schema_always(write_schema) == write_schema

\* `if write_schema and not self.log_path.exists():`
schema_needed(write_schema) == write_schema /\ ~log_exists

\* The logger objects: their class and, for JSONLLogger, the write_schema
\* argument they were constructed with.
JSONLLogger(write_schema) == [class |-> "JSONLLogger", write_schema |-> write_schema]

SessionLogger == [class |-> "SessionLogger", write_schema |-> FALSE]

NoLogCall == [op |-> "none", class |-> "none", ok |-> TRUE, entry |-> SchemaEntry]

\* The log file as it is found (existing with `content`, or absent) and no
\* logger constructed yet.
LogStart(existing, content) ==
    /\ log_exists = existing
    /\ log_file = content
    /\ log_new = ~existing
    /\ loggers = {}
    /\ log_call = NoLogCall

----------------------------------------------------------------------------
(* The standalone runner: where it stands before it is run *)

\* run_lights.py is not run.
RunnerIdle ==
    /\ rpc = "none"
    /\ hpc = "none"
    /\ rexc = "none"
    /\ signals = 0
    /\ sentOnClosed = FALSE
    /\ portActors = {}

\* The recording types, in the order of the dict wait_for_quicktime_files
\* builds, and the file types of ABLETON_EXTENSIONS that are followed.
QuicktimeTypes == <<"webcam", "screen">>

AbletonTypes == {"project", "midi"}

\* The file names relocation can compute, without the session id they all
\* start with: <source>_<type>, and <source>_<type>_<n> when n > 0.
DestNames ==
    {<<"quicktime", t, n>> : t \in Range(QuicktimeTypes), n \in 0..MaxFound}
        \cup {<<"ableton", t, n>> : t \in AbletonTypes, n \in {0} \cup (2..MaxFound)}

\* The names a session directory is followed with files already under.
OldNames ==
    {<<"quicktime", "screen", 0>>, <<"quicktime", "screen", 1>>,
     <<"ableton", "project", 0>>, <<"ableton", "project", 2>>}

NoReloc ==
    [op |-> "none", files |-> <<>>, next |-> 1, scan_errors |-> FALSE,
     dir_exists |-> TRUE, copied |-> <<>>, failed |-> <<>>,
     attempts |-> <<>>, result |-> "none"]

\* No relocation has run, on a session directory holding the files `old`.
FilesStart(old) ==
    /\ session_dir_files = [d \in DestNames |-> IF d \in old THEN <<"old", 0>> ELSE <<"absent", 0>>]
    /\ at_source = {}
    /\ reloc = NoReloc

\* The files of the directory that match the pattern.
WatchedFiles == {"a", "b"}

\* wait_for_files_stable is not called; the directory holds `sizes`.
WaitStart(sizes) ==
    /\ desktop = [f \in WatchedFiles |-> [size |-> sizes[f], changed_at |-> 0]]
    /\ wait = [state |-> "idle", now |-> 0,
               last_sizes |-> [f \in WatchedFiles |-> -1],
               stable_since |-> [f \in WatchedFiles |-> -1],
               result |-> {}]

\* quit_app is not called; the application runs or not.
QuitStart(is_running) ==
    /\ app_running = is_running
    /\ quit = [pc |-> "idle", wait_for_termination |-> TRUE, timeout |-> 0,
               delivered |-> FALSE, elapsed |-> 0, polls |-> 0,
               seen_not_running |-> FALSE, result |-> "none"]

\* No chase pattern runs.
NoWalk == [pattern |-> "none", order |-> <<>>, head_pos |-> 0, color_index |-> 0,
           frame |-> <<>>]

\* _pattern_sparkle does not run.
NoSparkle == [pc |-> "idle", active_pads |-> {}, shown |-> {}, reactivated |-> FALSE]

\* No pattern function is followed frame by frame.
PatternStart == walk = NoWalk /\ sparkle = NoSparkle

ExtraStart ==
    /\ RunnerIdle
    /\ FilesStart({})
    /\ WaitStart([f \in WatchedFiles |-> -1])
    /\ QuitStart(FALSE)
    /\ PatternStart

----------------------------------------------------------------------------
(* The instance and its environment after construction *)

\* A call: the operation; how it ended ("True", "False", "None", or "raised"
\* when it raised); the state and the port handle it started from; what its
\* connect() met and returned; the log entries it wrote; whether a send of
\* disconnect()'s reset raised; whether it created a thread.
NoCall == [op |-> "none", res |-> "none", pre |-> "none", port |-> 0,
           conn |-> "none", cret |-> "none", logs |-> 0,
           resetFailed |-> FALSE, newThread |-> FALSE]

\* Disconnected / Connected / Running, as the instance's fields tell it.
StateOf ==
    IF running THEN "Running" ELSE IF outport # 0 THEN "Connected" ELSE "Disconnected"

LightsInit ==
    /\ mido \in BOOLEAN
    /\ logger \in BOOLEAN
    /\ outport = 0
    /\ running = FALSE
    /\ thread = 0
    /\ tpc = [t \in Threads |-> "unborn"]
    /\ tmode = [t \in Threads |-> "hunt"]
    /\ tpat = [t \in Threads |-> "none"]
    /\ portState = [p \in Ports |-> "unopened"]
    /\ closeCalls = [p \in Ports |-> 0]
    /\ lit = {}
    /\ mode = "session"
    /\ exitSent = FALSE
    /\ mpc = "idle"
    /\ cur = NoCall
    /\ lastCall = NoCall
    /\ prevCall = NoCall
    /\ ncalls = 0

\* The lifecycle is followed from construction; the hunt pattern's locals
\* stand at the values _pattern_hunt gives them on entry.
Init ==
    /\ LightsInit
    /\ HuntStart(SampleDot)
    /\ SessionStart("none")
    /\ LogStart(FALSE, <<>>)
    /\ ExtraStart

\* A public call may be made: the controlling thread is between calls.
CanCall == mpc = "idle" /\ ncalls < MaxCalls

\* The record of a call that starts now.
Call(op) == [NoCall EXCEPT !.op = op, !.pre = StateOf, !.port = outport]


\* The call c ends with result res and control goes back to the caller.
Return(c, res) ==
    /\ lastCall' = [c EXCEPT !.res = res]
    /\ prevCall' = lastCall
    /\ cur' = NoCall
    /\ mpc' = "idle"

----------------------------------------------------------------------------
(* connect() *)

FreePorts == {p \in Ports : portState[p] = "unopened"}

NewPort == CHOOSE p \in FreePorts : \A q \in FreePorts : p <= q

\* connect()'s handler: self._log("launchpad_lights", status="error", ...) and
\* return False; the log call is outside the try and may raise.
ConnectErrorExit(conn, op, ps) ==
    {[ret |-> IF l = "raised" THEN "raised" ELSE "False", conn |-> conn,
      outport |-> op, portState |-> ps, logs |-> LogCount(l)] : l \in LogOutcomes}

\* A self._log(...) inside connect()'s try, then `return ret`: an OSError of
\* the logger is caught by `except (OSError, ValueError, RuntimeError)`.
ConnectLogReturn(conn, ret, op, ps) ==
    UNION {IF l = "raised" THEN ConnectErrorExit(conn, op, ps)
           ELSE {[ret |-> ret, conn |-> conn, outport |-> op, portState |-> ps,
                  logs |-> LogCount(l)]} : l \in LogOutcomes}

\* What connect() can do from the current state: its return value ("True",
\* "False", or "raised" when it raises), what it met (no mido, no matching
\* output name, open_output raising, a port opened) and the fields it leaves.
ConnectOutcomes ==
    IF ~mido
    THEN ConnectErrorExit("no_mido", outport, portState)
    ELSE ConnectLogReturn("not_found", "False", outport, portState)
         \cup ConnectErrorExit("open_error", outport, portState)
         \cup (IF FreePorts = {} THEN {}
               ELSE ConnectLogReturn("opened", "True", NewPort,
                                     [portState EXCEPT ![NewPort] = "open"]))

Connect ==
    /\ CanCall
    /\ ncalls' = ncalls + 1
    /\ \E c \in ConnectOutcomes :
          /\ outport' = c.outport
          /\ portState' = c.portState
          /\ Return([Call("connect") EXCEPT !.conn = c.conn, !.cret = c.ret,
                                            !.logs = c.logs], c.ret)
    /\ UNCHANGED <<huntVars, sessionVars, logVars, extraVars>>
    /\ UNCHANGED <<mido, logger, running, thread, tpc, tmode, tpat, closeCalls,
                   lit, mode, exitSent>>

----------------------------------------------------------------------------
(* start() and start_cat_lights() *)

FreeThreads == {t \in Threads : tpc[t] = "unborn"}

NewThread == CHOOSE t \in FreeThreads : \A u \in FreeThreads : t <= u

\* `if not self._outport:` connect() is called; otherwise it is not.
StartConnect ==
    IF outport = 0 THEN ConnectOutcomes
    ELSE {[ret |-> "True", conn |-> "none", outport |-> outport,
           portState |-> portState, logs |-> 0]}

\* A start() that goes on whatever connect() returned.
ConnectFailureIgnored(c) == FALSE

\* `if not self.connect(): return False`
ConnectFailed(c) == c.ret = "False"

\* `if self._running: return True`
AlreadyRunning == running

\* start_cat_lights: `if lights.start(pattern=pattern): return lights` else None.
CatResult(res) ==
    IF res = "True" THEN "instance" ELSE IF res = "False" THEN "None" ELSE res

\* start(pattern), called directly (op = "start") or by start_cat_lights.
StartCall(op, p) ==
    /\ CanCall
    /\ ncalls' = ncalls + 1
    /\ \E c \in StartConnect :
          LET call == [Call(op) EXCEPT !.conn = c.conn, !.logs = c.logs,
                                       !.cret = IF outport = 0 THEN c.ret ELSE "none"]
          IN
          /\ outport' = c.outport
          /\ portState' = c.portState
          /\ IF c.ret = "raised" \/ ConnectFailed(c)
             THEN /\ Return(call, c.ret)
                  /\ UNCHANGED <<running, thread, tpc, tmode, tpat, exitSent>>
             ELSE IF AlreadyRunning
             THEN /\ Return(call, "True")
                  /\ UNCHANGED <<running, thread, tpc, tmode, tpat, exitSent>>
             ELSE /\ FreeThreads # {}
                  /\ running' = TRUE
                  /\ thread' = NewThread
                  /\ tpc' = [tpc EXCEPT ![NewThread] = "enter"]
                  /\ tmode' = [tmode EXCEPT ![NewThread] = p]
                  /\ exitSent' = FALSE
                  /\ UNCHANGED tpat
                  /\ \E l \in LogOutcomes :
                        Return([call EXCEPT !.logs = c.logs + LogCount(l),
                                            !.newThread = TRUE],
                               IF l = "raised" THEN "raised" ELSE "True")
    /\ UNCHANGED <<huntVars, sessionVars, logVars, extraVars>>
    /\ UNCHANGED <<mido, logger, closeCalls, lit, mode>>

Start == \E p \in Modes : StartCall("start", p)

\* start_cat_lights constructs the instance itself, so it is the first call.
StartCatLights == ncalls = 0 /\ \E p \in Modes : StartCall("start_cat_lights", p)


----------------------------------------------------------------------------
(* stop() and disconnect() *)

\* A stop() without its first line.
StopNeverReturnsEarly == FALSE

\* `if not self._running: return`
StopReturnsEarly == ~running

\* What follows stop()'s body: stop() itself returns; disconnect() goes on to
\* `if self._outport:` and resets the device, or returns.
AfterStop(c) ==
    IF c.op = "disconnect" /\ outport # 0
    THEN /\ mpc' = "disc_exit"
         /\ cur' = c
         /\ UNCHANGED <<lastCall, prevCall>>
    ELSE Return(c, "None")

\* self._log("launchpad_lights", status="stopped"): an OSError of the logger
\* leaves stop(), and disconnect() with it.
StopLog(c) ==
    \E l \in LogOutcomes :
       LET d == [c EXCEPT !.logs = LogCount(l)]
       IN  IF l = "raised" THEN Return(d, "raised") ELSE AfterStop(d)

\* stop() from its first line, up to the join if there is a thread to join.
StopBody(c) ==
    IF StopReturnsEarly
    THEN /\ AfterStop(c)
         /\ UNCHANGED <<running, thread>>
    ELSE /\ running' = FALSE
         /\ IF thread # 0
            THEN /\ mpc' = "stop_join"
                 /\ cur' = c
                 /\ UNCHANGED <<lastCall, prevCall, thread>>
            ELSE /\ UNCHANGED thread
                 /\ StopLog(c)

Stop ==
    /\ CanCall
    /\ ncalls' = ncalls + 1
    /\ StopBody(Call("stop"))
    /\ UNCHANGED <<huntVars, sessionVars, logVars, extraVars>>
    /\ UNCHANGED <<mido, logger, outport, tpc, tmode, tpat, portState, closeCalls,
                   lit, mode, exitSent>>

Disconnect ==
    /\ CanCall
    /\ ncalls' = ncalls + 1
    /\ StopBody(Call("disconnect"))
    /\ UNCHANGED <<huntVars, sessionVars, logVars, extraVars>>
    /\ UNCHANGED <<mido, logger, outport, tpc, tmode, tpat, portState, closeCalls,
                   lit, mode, exitSent>>

ThreadEnded(t) == tpc[t] \in {"done", "crashed"}

\* self._thread.join(timeout=2.0) returns because the thread has ended.
JoinReturns ==
    /\ mpc = "stop_join"
    /\ ThreadEnded(thread)
    /\ thread' = 0
    /\ StopLog(cur)
    /\ UNCHANGED <<huntVars, sessionVars, logVars, extraVars>>
    /\ UNCHANGED <<mido, logger, ncalls, outport, running, tpc, tmode, tpat, portState,
                   closeCalls, lit, mode, exitSent>>

\* self._thread.join(timeout=2.0) returns because the two seconds are over
\* while the thread is still alive.
JoinTimesOut ==
    /\ mpc = "stop_join"
    /\ ~ThreadEnded(thread)
    /\ thread' = 0
    /\ StopLog(cur)
    /\ UNCHANGED <<huntVars, sessionVars, logVars, extraVars>>
    /\ UNCHANGED <<mido, logger, ncalls, outport, running, tpc, tmode, tpat, portState,
                   closeCalls, lit, mode, exitSent>>

\* disconnect(): self._exit_programmer_mode() inside the try; an OSError or
\* ValueError skips the rest of the try.
DiscExit ==
    /\ mpc = "disc_exit"
    /\ \E o \in SysexOutcomes :
          IF o = "raised"
          THEN /\ mpc' = "disc_release"
               /\ cur' = [cur EXCEPT !.resetFailed = TRUE]
               /\ UNCHANGED <<mode, exitSent>>
          ELSE /\ mpc' = "disc_clear"
               /\ mode' = IF o = "sent" THEN "session" ELSE mode
               /\ exitSent' = (exitSent \/ o = "sent")
               /\ UNCHANGED cur
    /\ UNCHANGED <<huntVars, sessionVars, logVars, extraVars>>
    /\ UNCHANGED <<mido, logger, ncalls, outport, running, thread, tpc, tmode, tpat,
                   portState, closeCalls, lit, lastCall, prevCall>>

\* disconnect(): self._clear_all_leds() inside the try.
DiscClear ==
    /\ mpc = "disc_clear"
    /\ \E o \in NoteOutcomes(TRUE, <<>>) :
          /\ lit' = o.lit
          /\ IF o.ok
             THEN mpc' = "disc_close" /\ UNCHANGED cur
             ELSE mpc' = "disc_release" /\ cur' = [cur EXCEPT !.resetFailed = TRUE]
    /\ UNCHANGED <<huntVars, sessionVars, logVars, extraVars>>
    /\ UNCHANGED <<mido, logger, ncalls, outport, running, thread, tpc, tmode, tpat,
                   portState, closeCalls, mode, exitSent, lastCall, prevCall>>

\* disconnect(): self._outport.close() inside the try; close() closes the
\* port, or raises and leaves it open.
DiscClose ==
    /\ mpc = "disc_close"
    /\ closeCalls' = [closeCalls EXCEPT ![outport] = @ + 1]
    /\ \E closed \in BOOLEAN :
          portState' = IF closed THEN [portState EXCEPT ![outport] = "closed"]
                       ELSE portState
    /\ mpc' = "disc_release"
    /\ UNCHANGED <<huntVars, sessionVars, logVars, extraVars>>
    /\ UNCHANGED <<mido, logger, ncalls, outport, running, thread, tpc, tmode, tpat,
                   lit, mode, exitSent, cur, lastCall, prevCall>>

\* disconnect(): self._outport = None after the try, and return.
DiscRelease ==
    /\ mpc = "disc_release"
    /\ outport' = 0
    /\ Return(cur, "None")
    /\ UNCHANGED <<huntVars, sessionVars, logVars, extraVars>>
    /\ UNCHANGED <<mido, logger, ncalls, running, thread, tpc, tmode, tpat, portState,
                   closeCalls, lit, mode, exitSent>>

----------------------------------------------------------------------------
(* The render thread: _run_hunt_loop / _run_random_patterns *)

\* An exception leaving the thread's target ends the thread.
AfterSend(ok, next) == IF ok THEN next ELSE "crashed"

\* self._enter_programmer_mode() at the top of the loop function.
ThreadEnter(t) ==
    /\ tpc[t] = "enter"
    /\ \E o \in SysexOutcomes :
          /\ tpc' = [tpc EXCEPT ![t] = AfterSend(o # "raised", "clear")]
          /\ mode' = IF o = "sent" THEN "programmer" ELSE mode
    /\ UNCHANGED <<huntVars, sessionVars, logVars, extraVars>>
    /\ UNCHANGED <<mido, logger, ncalls, outport, running, thread, tmode, tpat, portState,
                   closeCalls, lit, exitSent, mpc, cur, lastCall, prevCall>>

\* Where a _clear_all_leds() of the loop function leads: the one before the
\* loop and the one after each pattern ("clear") to the loop test, the one
\* after the loop ("finalclear") to the mode reset.
AfterClear(pc) == IF pc = "finalclear" THEN "exit" ELSE "loop"

ThreadClear(t) ==
    /\ tpc[t] \in {"clear", "finalclear"}
    /\ \E o \in NoteOutcomes(TRUE, <<>>) :
          /\ lit' = o.lit
          /\ tpc' = [tpc EXCEPT ![t] = AfterSend(o.ok, AfterClear(tpc[t]))]
    /\ UNCHANGED <<huntVars, sessionVars, logVars, extraVars>>
    /\ UNCHANGED <<mido, logger, ncalls, outport, running, thread, tmode, tpat, portState,
                   closeCalls, mode, exitSent, mpc, cur, lastCall, prevCall>>

\* `while self._running:` of the loop function, and the choice of the pattern.
ThreadLoopTest(t) ==
    /\ tpc[t] = "loop"
    /\ IF running
       THEN \E p \in (IF tmode[t] = "random" THEN Patterns ELSE {"hunt"}) :
               /\ tpc' = [tpc EXCEPT ![t] = "pattern"]
               /\ tpat' = [tpat EXCEPT ![t] = p]
       ELSE /\ tpc' = [tpc EXCEPT ![t] = "finalclear"]
            /\ UNCHANGED tpat
    /\ UNCHANGED <<huntVars, sessionVars, logVars, extraVars>>
    /\ UNCHANGED <<mido, logger, ncalls, outport, running, thread, tmode, portState,
                   closeCalls, lit, mode, exitSent, mpc, cur, lastCall, prevCall>>

\* `while self._running and time.time() < end_time:` of the pattern function
\* held: the thread goes on to draw a frame.
ThreadFrameTest(t) ==
    /\ tpc[t] = "pattern"
    /\ running
    /\ tpc' = [tpc EXCEPT ![t] = "frame"]
    /\ UNCHANGED <<huntVars, sessionVars, logVars, extraVars>>
    /\ UNCHANGED <<mido, logger, ncalls, outport, running, thread, tmode, tpat, portState,
                   closeCalls, lit, mode, exitSent, mpc, cur, lastCall, prevCall>>

\* One frame of the pattern: the frame is cleared (but in sparkle) and drawn,
\* and the thread sleeps until the next loop test.
ThreadFrame(t) ==
    /\ tpc[t] = "frame"
    /\ \E o \in NoteOutcomes(ClearsEachFrame(tpat[t]), FirstFrame(tpat[t])) :
          /\ lit' = o.lit
          /\ tpc' = [tpc EXCEPT ![t] = AfterSend(o.ok, "pattern")]
    /\ UNCHANGED <<huntVars, sessionVars, logVars, extraVars>>
    /\ UNCHANGED <<mido, logger, ncalls, outport, running, thread, tmode, tpat, portState,
                   closeCalls, mode, exitSent, mpc, cur, lastCall, prevCall>>

\* The pads sparkle turns off after its loop (`for note in active_pads`):
\* those it lit that are still lit.
SparkleRemaining(t) ==
    IF tpat[t] = "sparkle" THEN Range(FirstFrame("sparkle")) \cap lit ELSE {}

\* The pattern function returns: the stop flag was seen cleared or the
\* pattern's duration is over.
ThreadPatternEnd(t) ==
    /\ tpc[t] = "pattern"
    /\ IF SparkleRemaining(t) # {} /\ outport # 0
       THEN \E ok \in (IF DeviceOpen THEN BOOLEAN ELSE {FALSE}) :
               /\ lit' = IF ok THEN lit \ SparkleRemaining(t) ELSE lit
               /\ tpc' = [tpc EXCEPT ![t] = AfterSend(ok, "clear")]
               /\ tpat' = [tpat EXCEPT ![t] = IF ok THEN "none" ELSE @]
       ELSE /\ tpc' = [tpc EXCEPT ![t] = "clear"]
            /\ tpat' = [tpat EXCEPT ![t] = "none"]
            /\ UNCHANGED lit
    /\ UNCHANGED <<huntVars, sessionVars, logVars, extraVars>>
    /\ UNCHANGED <<mido, logger, ncalls, outport, running, thread, tmode, portState,
                   closeCalls, mode, exitSent, mpc, cur, lastCall, prevCall>>

\* self._exit_programmer_mode() at the end of the loop function.
ThreadExit(t) ==
    /\ tpc[t] = "exit"
    /\ \E o \in SysexOutcomes :
          /\ tpc' = [tpc EXCEPT ![t] = AfterSend(o # "raised", "done")]
          /\ mode' = IF o = "sent" THEN "session" ELSE mode
          /\ exitSent' = (exitSent \/ o = "sent")
    /\ UNCHANGED <<huntVars, sessionVars, logVars, extraVars>>
    /\ UNCHANGED <<mido, logger, ncalls, outport, running, thread, tmode, tpat, portState,
                   closeCalls, lit, mpc, cur, lastCall, prevCall>>

----------------------------------------------------------------------------

Next ==
    \/ Connect
    \/ Start
    \/ StartCatLights
    \/ Stop
    \/ Disconnect
    \/ JoinReturns
    \/ JoinTimesOut
    \/ DiscExit
    \/ DiscClear
    \/ DiscClose
    \/ DiscRelease
    \/ \E t \in Threads : ThreadEnter(t)
    \/ \E t \in Threads : ThreadClear(t)
    \/ \E t \in Threads : ThreadLoopTest(t)
    \/ \E t \in Threads : ThreadFrameTest(t)
    \/ \E t \in Threads : ThreadFrame(t)
    \/ \E t \in Threads : ThreadPatternEnd(t)
    \/ \E t \in Threads : ThreadExit(t)

Spec == Init /\ [][Next]_vars

\* A step of render thread t.
ThreadStep(t) ==
    \/ ThreadEnter(t)
    \/ ThreadClear(t)
    \/ ThreadLoopTest(t)
    \/ ThreadFrameTest(t)
    \/ ThreadFrame(t)
    \/ ThreadPatternEnd(t)
    \/ ThreadExit(t)

\* The lifecycle with every started thread scheduled again and again: a
\* render thread only sleeps for bounded times, and a pattern function that
\* finds the flag cleared returns instead of drawing.
FairSpec == Spec /\ \A t \in Threads : WF_vars(ThreadStep(t))

----------------------------------------------------------------------------
(* One run of _pattern_hunt, tick by tick *)

\* snake_speed = 0.135 and dot_speed = 0.15, both timers started before the
\* loop, the snake's block first in the loop body, and every iteration at
\* least the 0.03 s of its sleep long: whenever the dot's timer has expired
\* the snake's has too, so the dot never ticks first nor twice without a
\* snake tick in between; and the second snake tick after a dot tick is at
\* least 0.165 s after it, so the dot ticks in that iteration.
MaxSnakeTicksPerDotTick == 2

\* `if now - last_snake_move >= snake_speed:` held.
SnakeTick ==
    /\ since_dot < MaxSnakeTicksPerDotTick
    /\ since_dot' = since_dot + 1
    /\ \E d \in choose_snake_direction(snake[1], dot, snake_dir, snake) :
          LET new_head == ClampedStep(snake[1], d)
              moved == off_body(new_head, snake)
              after == IF moved THEN move_snake(snake, new_head) ELSE snake
          IN  /\ snake_dir' = d
              /\ snake' = after
              /\ tick' = [kind |-> "snake", moved |-> moved, caught |-> after[1] = dot]
              /\ IF after[1] = dot
                 THEN /\ dot' \in spawn_dot_away_from(after)
                      /\ dot_color_idx' \in new_color_idx(dot_color_idx)
                 ELSE UNCHANGED <<dot, dot_color_idx>>
    /\ UNCHANGED <<lightsVars, sessionVars, logVars, extraVars>>

\* `if now - last_dot_move >= dot_speed:` held.
DotTick ==
    /\ since_dot >= 1
    /\ since_dot' = 0
    /\ dot' \in move_dot_away(dot, snake[1])
    /\ tick' = [kind |-> "dot", moved |-> dot' # dot, caught |-> FALSE]
    /\ UNCHANGED <<snake, snake_dir, dot_color_idx>>
    /\ UNCHANGED <<lightsVars, sessionVars, logVars, extraVars>>

\* A pursuit run from the entry of _pattern_hunt, the dot spawned anywhere
\* _spawn_dot_away_from allows, on an instance that is left alone.
HuntInit ==
    /\ LightsInit
    /\ mido
    /\ ~logger
    /\ \E d \in spawn_dot_away_from(InitSnake) : HuntStart(d)
    /\ SessionStart("none")
    /\ LogStart(FALSE, <<>>)
    /\ ExtraStart

HuntNext == SnakeTick \/ DotTick

HuntSpec == HuntInit /\ [][HuntNext]_vars

----------------------------------------------------------------------------
(* The setup script: scripts/setup/recording.py main() *)

\* Arguments parsed, session directory and logger created, `failures = 0`.
SetupMain ==
    /\ command = "setup"
    /\ cpc = "main"
    /\ cpc' = "check_launchpad"
    /\ failures' = 0
    /\ UNCHANGED <<command, launchpad_check, errors_occurred, qt_files, moved_files,
                   failed, exit_code,
                   session_id, session_dir_exists>>
    /\ UNCHANGED <<lightsVars, huntVars, logVars, extraVars>>

\* `if check_launchpad(logger):` - both branches only print.
CheckLaunchpad ==
    /\ command = "setup"
    /\ cpc = "check_launchpad"
    /\ \E status \in LaunchpadStatuses :
          /\ launchpad_check' = status
          /\ failed' = FailedAfter("check_launchpad", check_launchpad(status))
    /\ cpc' = "launch_quicktime"
    /\ UNCHANGED <<command, failures, errors_occurred, qt_files, moved_files, exit_code,
                   session_id, session_dir_exists>>
    /\ UNCHANGED <<lightsVars, huntVars, logVars, extraVars>>

\* `if launch_quicktime(logger): ... else: failures += 1`.
LaunchQuicktime ==
    /\ command = "setup"
    /\ cpc = "launch_quicktime"
    /\ \E launched \in BOOLEAN :
          /\ failures' = IF launched THEN failures ELSE failures + 1
          /\ failed' = FailedAfter("launch_quicktime", launched)
    /\ cpc' = "launch_chrome_to_url"
    /\ UNCHANGED <<command, launchpad_check, errors_occurred, qt_files, moved_files,
                   exit_code,
                   session_id, session_dir_exists>>
    /\ UNCHANGED <<lightsVars, huntVars, logVars, extraVars>>

\* `if launch_chrome_to_url(...): ... else: failures += 1`, then to the end
\* of main(): `return 1 if failures > 0 else 0`.
LaunchChrome ==
    /\ command = "setup"
    /\ cpc = "launch_chrome_to_url"
    /\ \E launched \in BOOLEAN :
          /\ failures' = IF launched THEN failures ELSE failures + 1
          /\ failed' = FailedAfter("launch_chrome_to_url", launched)
    /\ exit_code' = IF failures' > 0 THEN 1 ELSE 0
    /\ cpc' = "returned"
    /\ UNCHANGED <<command, launchpad_check, errors_occurred, qt_files, moved_files,
                   session_id, session_dir_exists>>
    /\ UNCHANGED <<lightsVars, huntVars, logVars, extraVars>>

SetupNext == SetupMain \/ CheckLaunchpad \/ LaunchQuicktime \/ LaunchChrome

----------------------------------------------------------------------------
(* The shutdown script: scripts/shutdown/main.py main() and run_shutdown() *)

\* main() validates the session id and run_shutdown() looks for the session
\* directory: either test failing returns 1 before any sub-step; otherwise
\* the logger is created, the start of the sequence is logged and
\* `errors_occurred = False`.
ShutdownMain ==
    /\ command = "shutdown"
    /\ cpc = "main"
    /\ \E arg \in SessionIdArgs, dir_exists \in BOOLEAN :
          /\ session_id' = arg
          /\ session_dir_exists' = dir_exists
          /\ IF validate_session_id(arg) /\ dir_exists
             THEN /\ cpc' = "stop_all_recordings"
                  /\ errors_occurred' = FALSE
                  /\ loggers' = loggers \cup {SessionLogger}
                  /\ log_file' = write_entry(log_file, SessionEntry("session_end", TRUE, TRUE), "a")
                  /\ log_exists' = TRUE
                  /\ log_call' = [op |-> "log", class |-> "SessionLogger", ok |-> TRUE,
                                  entry |-> SessionEntry("session_end", TRUE, TRUE)]
                  /\ UNCHANGED <<exit_code, log_new>>
             ELSE /\ cpc' = "returned"
                  /\ exit_code' = 1
                  /\ UNCHANGED <<errors_occurred, logVars>>
    /\ UNCHANGED <<command, launchpad_check, failures, qt_files, moved_files, failed>>
    /\ UNCHANGED <<lightsVars, huntVars, extraVars>>

\* Step 1: quicktime.stop_all_recordings().
StopAllRecordings ==
    /\ command = "shutdown"
    /\ cpc = "stop_all_recordings"
    /\ \E success \in BOOLEAN :
          /\ errors_occurred' = IF success THEN errors_occurred ELSE TRUE
          /\ failed' = FailedAfter("stop_all_recordings", success)
    /\ cpc' = "wait_for_quicktime_files"
    /\ UNCHANGED <<command, launchpad_check, failures, qt_files, moved_files, exit_code,
                   session_id, session_dir_exists>>
    /\ UNCHANGED <<lightsVars, huntVars, logVars, extraVars>>

\* Step 2: wait_for_quicktime_files() - whatever it finds is logged as
\* success or skipped.
WaitForQuicktimeFiles ==
    /\ command = "shutdown"
    /\ cpc = "wait_for_quicktime_files"
    /\ qt_files' \in [QUICKTIME_PATTERNS -> 0..MaxRecordings]
    /\ cpc' = "move_quicktime_files"
    /\ UNCHANGED <<command, launchpad_check, failures, errors_occurred, moved_files,
                   failed, exit_code,
                   session_id, session_dir_exists>>
    /\ UNCHANGED <<lightsVars, huntVars, logVars, extraVars>>

\* Step 3: move_quicktime_files() - a file whose destination exists or whose
\* move raises is logged as failed and the loop goes on; run_shutdown only
\* looks at the list of moved files.
MoveQuicktimeFiles ==
    /\ command = "shutdown"
    /\ cpc = "move_quicktime_files"
    /\ \E outcome \in [1..total_files(qt_files) -> MoveOutcomes] :
          /\ moved_files' = move_quicktime_files(outcome)
          /\ failed' = FailedAfter("move_quicktime_files", ~move_logged_failure(outcome))
    /\ cpc' = "quit_player"
    /\ UNCHANGED <<command, launchpad_check, failures, errors_occurred, qt_files,
                   exit_code,
                   session_id, session_dir_exists>>
    /\ UNCHANGED <<lightsVars, huntVars, logVars, extraVars>>

\* Step 4: quicktime.quit_player() - a failure is logged, nothing else.
QuitPlayer ==
    /\ command = "shutdown"
    /\ cpc = "quit_player"
    /\ \E success \in BOOLEAN :
          failed' = FailedAfter("quit_player", success)
    /\ cpc' = "copy_project_files"
    /\ UNCHANGED <<command, launchpad_check, failures, errors_occurred, qt_files,
                   moved_files, exit_code,
                   session_id, session_dir_exists>>
    /\ UNCHANGED <<lightsVars, huntVars, logVars, extraVars>>

\* Step 5: ableton.copy_project_files().
CopyProjectFiles ==
    /\ command = "shutdown"
    /\ cpc = "copy_project_files"
    /\ \E success \in BOOLEAN :
          /\ errors_occurred' = IF success THEN errors_occurred ELSE TRUE
          /\ failed' = FailedAfter("copy_project_files", success)
    /\ cpc' = "close_app"
    /\ UNCHANGED <<command, launchpad_check, failures, qt_files, moved_files, exit_code,
                   session_id, session_dir_exists>>
    /\ UNCHANGED <<lightsVars, huntVars, logVars, extraVars>>

\* Step 6: ableton.close_app().
CloseApp ==
    /\ command = "shutdown"
    /\ cpc = "close_app"
    /\ \E success \in BOOLEAN :
          /\ errors_occurred' = IF success THEN errors_occurred ELSE TRUE
          /\ failed' = FailedAfter("close_app", success)
    /\ cpc' = "upload_session"
    /\ UNCHANGED <<command, launchpad_check, failures, qt_files, moved_files, exit_code,
                   session_id, session_dir_exists>>
    /\ UNCHANGED <<lightsVars, huntVars, logVars, extraVars>>

\* Step 7: gphotos.upload_session(), then to the end of run_shutdown():
\* `return 0 if not errors_occurred else 1`.
UploadSession ==
    /\ command = "shutdown"
    /\ cpc = "upload_session"
    /\ \E success \in BOOLEAN :
          /\ errors_occurred' = IF success THEN errors_occurred ELSE TRUE
          /\ failed' = FailedAfter("upload_session", success)
    /\ exit_code' = IF ~errors_occurred' THEN 0 ELSE 1
    /\ cpc' = "returned"
    /\ UNCHANGED <<command, launchpad_check, failures, qt_files, moved_files,
                   session_id, session_dir_exists>>
    /\ UNCHANGED <<lightsVars, huntVars, logVars, extraVars>>

ShutdownNext ==
    \/ ShutdownMain
    \/ StopAllRecordings
    \/ WaitForQuicktimeFiles
    \/ MoveQuicktimeFiles
    \/ QuitPlayer
    \/ CopyProjectFiles
    \/ CloseApp
    \/ UploadSession

\* One run of either script, on a machine where nothing else of the model
\* is in use.
SessionInit ==
    /\ LightsInit
    /\ mido
    /\ ~logger
    /\ HuntStart(SampleDot)
    /\ \E c \in {"setup", "shutdown"} : SessionStart(c)
    /\ LogStart(FALSE, <<>>)
    /\ ExtraStart

SessionNext == SetupNext \/ ShutdownNext

SessionSpec == SessionInit /\ [][SessionNext]_vars

----------------------------------------------------------------------------
(* Constructing loggers and logging, on one log file *)

\* JSONLLogger(log_path, write_schema): the schema is written with mode "w"
\* if the file is new; an OSError of that write leaves __init__, with the
\* file created empty or not created, and no logger object.
NewJSONLLogger ==
    /\ \E write_schema \in BOOLEAN :
          IF schema_needed(write_schema)
          THEN \E ok \in BOOLEAN :
                  IF ok
                  THEN /\ log_file' = write_entry(log_file, SchemaEntry, "w")
                       /\ log_exists' = TRUE
                       /\ loggers' = loggers \cup {JSONLLogger(write_schema)}
                       /\ log_call' = [op |-> "init", class |-> "JSONLLogger", ok |-> TRUE,
                                       entry |-> SchemaEntry]
                  ELSE /\ log_exists' \in {log_exists, TRUE}
                       /\ log_file' = IF log_exists' THEN <<>> ELSE log_file
                       /\ UNCHANGED loggers
                       /\ log_call' = [op |-> "init", class |-> "JSONLLogger", ok |-> FALSE,
                                       entry |-> SchemaEntry]
          ELSE /\ loggers' = loggers \cup {JSONLLogger(write_schema)}
               /\ log_call' = [op |-> "init", class |-> "JSONLLogger", ok |-> TRUE,
                               entry |-> SchemaEntry]
               /\ UNCHANGED <<log_exists, log_file>>
    /\ UNCHANGED log_new
    /\ UNCHANGED <<lightsVars, huntVars, sessionVars, extraVars>>

\* SessionLogger(session_dir): the directory is made, the file is not touched.
NewSessionLogger ==
    /\ loggers' = loggers \cup {SessionLogger}
    /\ log_call' = [op |-> "init", class |-> "SessionLogger", ok |-> TRUE,
                    entry |-> SchemaEntry]
    /\ UNCHANGED <<log_exists, log_file, log_new>>
    /\ UNCHANGED <<lightsVars, huntVars, sessionVars, extraVars>>

\* A log call of class c writing entry e with mode "a": the record is
\* written, or the call raises OSError with the file's records as they
\* were (the file itself may have been created by the open).
LogCall(c, e) ==
    /\ Len(log_file) < MaxLogRecords
    /\ \E ok \in BOOLEAN :
          /\ log_call' = [op |-> "log", class |-> c, ok |-> ok, entry |-> e]
          /\ IF ok
             THEN /\ log_file' = write_entry(log_file, e, "a")
                  /\ log_exists' = TRUE
             ELSE /\ log_exists' \in {log_exists, TRUE}
                  /\ UNCHANGED log_file
    /\ UNCHANGED <<log_new, loggers>>
    /\ UNCHANGED <<lightsVars, huntVars, sessionVars, extraVars>>

\* JSONLLogger.log(action, **kwargs)
JSONLLog ==
    /\ \E l \in loggers : l.class = "JSONLLogger"
    /\ \E e \in JSONLCalls : LogCall("JSONLLogger", e)

\* SessionLogger.log(action, status, message, details)
SessionLog ==
    /\ SessionLogger \in loggers
    /\ \E e \in SessionCalls : LogCall("SessionLogger", e)

\* Any sequence of constructions and log calls on one log file, which is
\* absent at first or exists with some content.
LogInit ==
    /\ LightsInit
    /\ mido
    /\ ~logger
    /\ HuntStart(SampleDot)
    /\ SessionStart("none")
    /\ \/ LogStart(FALSE, <<>>)
       \/ \E content \in OldContents : LogStart(TRUE, content)
    /\ ExtraStart

LogNext == NewJSONLLogger \/ NewSessionLogger \/ JSONLLog \/ SessionLog

LogSpec == LogInit /\ [][LogNext]_vars

----------------------------------------------------------------------------
(* The standalone runner: run_lights.main() and its signal handler *)

\* The handler runs on the main thread, between two of its instructions:
\* what executes is the innermost handler if one is running, else main().
RunnerPos == IF hpc # "none" THEN hpc ELSE rpc

GoTo(pos) == IF hpc # "none" THEN hpc' = pos /\ rpc' = rpc ELSE rpc' = pos /\ hpc' = hpc

\* main() has returned, or an exception has left it.
RunnerEnded == {"return0", "return1", "exit0", "raised"}

\* main() is inside its try block (lines 56-79).
InTry == rpc \in {"looptest", "pattern", "loopclear", "loopclear2"}

\* main() is inside its finally block (lines 83-85), disconnect() included.
InFinally ==
    rpc \in {"f_clear", "f_clear2", "f_exit", "d_stop", "d_test", "d_exit", "d_clear",
             "d_clear2", "d_close", "d_release"}

\* Whose code is executing.
Actor == IF hpc # "none" THEN "handler" ELSE IF InFinally THEN "finally" ELSE "main"

\* A call of send() (or of close()) on the port self._outport refers to.
PortUse(send) ==
    /\ sentOnClosed' = (sentOnClosed \/ (send /\ outport # 0 /\ portState[outport] = "closed"))
    /\ portActors' = IF DeviceOpen THEN portActors \cup {Actor} ELSE portActors

\* An exception leaves the statement main() is at: inside the try block the
\* finally block runs with it pending, anywhere else it leaves main().
RaiseInMain(e) ==
    /\ hpc' = hpc
    /\ IF InTry THEN rpc' = "f_clear" /\ rexc' = e
       ELSE rpc' = "raised" /\ rexc' = rexc

\* disconnect() returns: the handler goes on to sys.exit(0); main()'s
\* finally block ends, and the pending exception, if any, leaves main().
DisconnectReturns ==
    IF hpc # "none" THEN hpc' = "sysexit" /\ rpc' = rpc
    ELSE /\ hpc' = hpc
         /\ rpc' = CASE rexc = "none" -> "return0"
                     [] rexc = "SystemExit" -> "exit0"
                     [] OTHER -> "raised"

\* The halves of one _clear_all_leds: its first note_on, and the other 71.
ClearFirst == {"clear", "loopclear", "f_clear", "d_clear"}

ClearSecond == {"clear2", "loopclear2", "f_clear2", "d_clear2"}

AfterClearAt(pos) ==
    CASE pos = "clear" -> "clear2"
      [] pos = "loopclear" -> "loopclear2"
      [] pos = "f_clear" -> "f_clear2"
      [] pos = "d_clear" -> "d_clear2"
      [] pos \in {"clear2", "loopclear2"} -> "looptest"
      [] pos = "f_clear2" -> "f_exit"
      [] OTHER -> "d_close"

\* With no port handle the sends are dropped; on a closed port the first
\* send raises; on an open port they are delivered or one raises.
ClearHalfOutcomes(pos) ==
    IF outport = 0 THEN {[ok |-> TRUE, lit |-> lit]}
    ELSE IF portState[outport] # "open" THEN {[ok |-> FALSE, lit |-> lit]}
    ELSE IF pos \in ClearFirst
    THEN {[ok |-> TRUE, lit |-> ClearPrefix(lit, 1)], [ok |-> FALSE, lit |-> lit]}
    ELSE {[ok |-> TRUE, lit |-> {}], [ok |-> FALSE, lit |-> ClearPrefix(lit, 71)]}

\* `lights = LaunchpadLights()` and the two signal.signal(...) calls.
RunLights ==
    /\ rpc = "none"
    /\ ~logger
    /\ ncalls = 0
    /\ rpc' = "connect"
    /\ UNCHANGED <<hpc, rexc, signals, sentOnClosed, portActors>>
    /\ UNCHANGED <<lightsVars, huntVars, sessionVars, logVars, filesVars, waitVars, quitVars, patternVars>>

\* lights.connect() up to mido.open_output(...) returning; `if not
\* lights.connect(): return 1`.
RunnerConnect ==
    /\ hpc = "none"
    /\ rpc = "connect"
    /\ \/ rpc' = "return1" /\ UNCHANGED portState
       \/ /\ mido
          /\ portState' = [portState EXCEPT ![NewPort] = "open"]
          /\ rpc' = "c_assign"
    /\ UNCHANGED <<hpc, rexc, signals, sentOnClosed, portActors>>
    /\ UNCHANGED <<mido, logger, outport, running, thread, tpc, tmode, tpat,
                   closeCalls, lit, mode, exitSent, mpc, cur, lastCall, prevCall, ncalls>>
    /\ UNCHANGED <<huntVars, sessionVars, logVars, filesVars, waitVars, quitVars, patternVars>>

\* `self._outport = <the port opened>` and connect() returning True.
RunnerAssign ==
    /\ hpc = "none"
    /\ rpc = "c_assign"
    /\ outport' = CHOOSE q \in Ports : portState[q] # "unopened"
    /\ rpc' = "flag"
    /\ UNCHANGED <<hpc, rexc, signals, sentOnClosed, portActors>>
    /\ UNCHANGED <<mido, logger, running, thread, tpc, tmode, tpat, portState,
                   closeCalls, lit, mode, exitSent, mpc, cur, lastCall, prevCall, ncalls>>
    /\ UNCHANGED <<huntVars, sessionVars, logVars, filesVars, waitVars, quitVars, patternVars>>

\* `lights._running = True`
RunnerSetFlag ==
    /\ hpc = "none"
    /\ rpc = "flag"
    /\ running' = TRUE
    /\ rpc' = "enter"
    /\ UNCHANGED <<hpc, rexc, signals, sentOnClosed, portActors>>
    /\ UNCHANGED <<mido, logger, outport, thread, tpc, tmode, tpat, portState,
                   closeCalls, lit, mode, exitSent, mpc, cur, lastCall, prevCall, ncalls>>
    /\ UNCHANGED <<huntVars, sessionVars, logVars, filesVars, waitVars, quitVars, patternVars>>

\* `lights._enter_programmer_mode()`, before the try block.
RunnerEnter ==
    /\ hpc = "none"
    /\ rpc = "enter"
    /\ PortUse(TRUE)
    /\ \E o \in SysexOutcomes :
          IF o = "raised" THEN RaiseInMain("OSError") /\ UNCHANGED mode
          ELSE /\ rpc' = "clear"
               /\ mode' = IF o = "sent" THEN "programmer" ELSE mode
               /\ UNCHANGED <<hpc, rexc>>
    /\ UNCHANGED signals
    /\ UNCHANGED <<mido, logger, outport, running, thread, tpc, tmode, tpat, portState,
                   closeCalls, lit, exitSent, mpc, cur, lastCall, prevCall, ncalls>>
    /\ UNCHANGED <<huntVars, sessionVars, logVars, filesVars, waitVars, quitVars, patternVars>>

\* One half of a _clear_all_leds: of main() (lines 53, 74/79, 83) or of a
\* disconnect() (line 176), whose try catches what a send raises.
RunnerClear ==
    /\ rpc \notin RunnerEnded
    /\ RunnerPos \in ClearFirst \cup ClearSecond
    /\ PortUse(outport # 0)
    /\ \E o \in ClearHalfOutcomes(RunnerPos) :
          /\ lit' = o.lit
          /\ IF o.ok THEN GoTo(AfterClearAt(RunnerPos)) /\ UNCHANGED rexc
             ELSE IF RunnerPos \in {"d_clear", "d_clear2"}
             THEN GoTo("d_release") /\ UNCHANGED rexc
             ELSE RaiseInMain("OSError")
    /\ UNCHANGED signals
    /\ UNCHANGED <<mido, logger, outport, running, thread, tpc, tmode, tpat, portState,
                   closeCalls, mode, exitSent, mpc, cur, lastCall, prevCall, ncalls>>
    /\ UNCHANGED <<huntVars, sessionVars, logVars, filesVars, waitVars, quitVars, patternVars>>

\* `while lights._running:`; leaving the loop enters the finally block.
RunnerLoopTest ==
    /\ hpc = "none"
    /\ rpc = "looptest"
    /\ rpc' = IF running THEN "pattern" ELSE "f_clear"
    /\ UNCHANGED <<hpc, rexc, signals, sentOnClosed, portActors>>
    /\ UNCHANGED <<lightsVars, huntVars, sessionVars, logVars, filesVars, waitVars, quitVars, patternVars>>

\* One frame of the pattern function that was called, or its return: when
\* its duration is over, or when it finds self._running false.
RunnerPattern ==
    /\ hpc = "none"
    /\ rpc = "pattern"
    /\ IF ~running
       THEN /\ rpc' = "loopclear"
            /\ UNCHANGED <<hpc, rexc, lit, sentOnClosed, portActors>>
       ELSE /\ PortUse(outport # 0)
            /\ \E pat \in Patterns :
                 \E o \in NoteOutcomes(ClearsEachFrame(pat), FirstFrame(pat)) :
                     /\ lit' = o.lit
                     /\ IF o.ok
                        THEN rpc' \in {"pattern", "loopclear"} /\ UNCHANGED <<hpc, rexc>>
                        ELSE RaiseInMain("OSError")
    /\ UNCHANGED signals
    /\ UNCHANGED <<mido, logger, outport, running, thread, tpc, tmode, tpat, portState,
                   closeCalls, mode, exitSent, mpc, cur, lastCall, prevCall, ncalls>>
    /\ UNCHANGED <<huntVars, sessionVars, logVars, filesVars, waitVars, quitVars, patternVars>>

\* `lights._exit_programmer_mode()` of the finally block.
RunnerFinallyExit ==
    /\ hpc = "none"
    /\ rpc = "f_exit"
    /\ PortUse(outport # 0)
    /\ \E o \in SysexOutcomes :
          IF o = "raised" THEN RaiseInMain("OSError") /\ UNCHANGED mode
          ELSE /\ rpc' = "d_stop"
               /\ mode' = IF o = "sent" THEN "session" ELSE mode
               /\ UNCHANGED <<hpc, rexc>>
    /\ UNCHANGED signals
    /\ UNCHANGED <<mido, logger, outport, running, thread, tpc, tmode, tpat, portState,
                   closeCalls, lit, exitSent, mpc, cur, lastCall, prevCall, ncalls>>
    /\ UNCHANGED <<huntVars, sessionVars, logVars, filesVars, waitVars, quitVars, patternVars>>

\* disconnect(): self.stop(); the runner has no thread and no logger.
RunnerDiscStop ==
    /\ rpc \notin RunnerEnded
    /\ RunnerPos = "d_stop"
    /\ running' = FALSE
    /\ GoTo("d_test")
    /\ UNCHANGED <<rexc, signals, sentOnClosed, portActors>>
    /\ UNCHANGED <<mido, logger, outport, thread, tpc, tmode, tpat, portState,
                   closeCalls, lit, mode, exitSent, mpc, cur, lastCall, prevCall, ncalls>>
    /\ UNCHANGED <<huntVars, sessionVars, logVars, filesVars, waitVars, quitVars, patternVars>>

\* disconnect(): `if self._outport:`
RunnerDiscTest ==
    /\ rpc \notin RunnerEnded
    /\ RunnerPos = "d_test"
    /\ IF outport # 0 THEN GoTo("d_exit") ELSE DisconnectReturns
    /\ UNCHANGED <<rexc, signals, sentOnClosed, portActors>>
    /\ UNCHANGED <<lightsVars, huntVars, sessionVars, logVars, filesVars, waitVars, quitVars, patternVars>>

\* disconnect(): self._exit_programmer_mode() inside its try.
RunnerDiscExit ==
    /\ rpc \notin RunnerEnded
    /\ RunnerPos = "d_exit"
    /\ PortUse(outport # 0)
    /\ \E o \in SysexOutcomes :
          IF o = "raised" THEN GoTo("d_release") /\ UNCHANGED mode
          ELSE /\ GoTo("d_clear")
               /\ mode' = IF o = "sent" THEN "session" ELSE mode
    /\ UNCHANGED <<rexc, signals>>
    /\ UNCHANGED <<mido, logger, outport, running, thread, tpc, tmode, tpat, portState,
                   closeCalls, lit, exitSent, mpc, cur, lastCall, prevCall, ncalls>>
    /\ UNCHANGED <<huntVars, sessionVars, logVars, filesVars, waitVars, quitVars, patternVars>>

\* disconnect(): self._outport.close() inside its try; close() closes the
\* port, or raises and leaves it open. A disconnect() that got here is not
\* resumed after another one has set self._outport to None.
RunnerDiscClose ==
    /\ rpc \notin RunnerEnded
    /\ RunnerPos = "d_close"
    /\ outport # 0
    /\ PortUse(FALSE)
    /\ closeCalls' = [closeCalls EXCEPT ![outport] = @ + 1]
    /\ \E closed \in BOOLEAN :
          portState' = IF closed THEN [portState EXCEPT ![outport] = "closed"]
                       ELSE portState
    /\ GoTo("d_release")
    /\ UNCHANGED <<rexc, signals>>
    /\ UNCHANGED <<mido, logger, outport, running, thread, tpc, tmode, tpat,
                   lit, mode, exitSent, mpc, cur, lastCall, prevCall, ncalls>>
    /\ UNCHANGED <<huntVars, sessionVars, logVars, filesVars, waitVars, quitVars, patternVars>>

\* disconnect(): self._outport = None after the try, and return.
RunnerDiscRelease ==
    /\ rpc \notin RunnerEnded
    /\ RunnerPos = "d_release"
    /\ outport' = 0
    /\ DisconnectReturns
    /\ UNCHANGED <<rexc, signals, sentOnClosed, portActors>>
    /\ UNCHANGED <<mido, logger, running, thread, tpc, tmode, tpat, portState,
                   closeCalls, lit, mode, exitSent, mpc, cur, lastCall, prevCall, ncalls>>
    /\ UNCHANGED <<huntVars, sessionVars, logVars, filesVars, waitVars, quitVars, patternVars>>

\* SIGTERM or SIGINT arrives: shutdown_handler is called where the main
\* thread stands, be it inside main() or inside a running handler, and
\* starts lights.disconnect().
Signal ==
    /\ rpc \notin {"none"} \cup RunnerEnded
    /\ signals < MaxSignals
    /\ signals' = signals + 1
    /\ hpc' = "d_stop"
    /\ UNCHANGED <<rpc, rexc, sentOnClosed, portActors>>
    /\ UNCHANGED <<lightsVars, huntVars, sessionVars, logVars, filesVars, waitVars, quitVars, patternVars>>

\* The handler's sys.exit(0): SystemExit unwinds the interrupted handlers,
\* which do not catch it, and then main(), where it runs the finally block
\* if it was raised inside the try block.
HandlerExit ==
    /\ hpc = "sysexit"
    /\ hpc' = "none"
    /\ IF InTry THEN rpc' = "f_clear" /\ rexc' = "SystemExit"
       ELSE rpc' = "exit0" /\ rexc' = rexc
    /\ UNCHANGED <<signals, sentOnClosed, portActors>>
    /\ UNCHANGED <<lightsVars, huntVars, sessionVars, logVars, filesVars, waitVars, quitVars, patternVars>>

RunnerInit ==
    /\ LightsInit
    /\ ~logger
    /\ HuntStart(SampleDot)
    /\ SessionStart("none")
    /\ LogStart(FALSE, <<>>)
    /\ ExtraStart

RunnerNext ==
    \/ RunLights
    \/ RunnerConnect
    \/ RunnerAssign
    \/ RunnerSetFlag
    \/ RunnerEnter
    \/ RunnerClear
    \/ RunnerLoopTest
    \/ RunnerPattern
    \/ RunnerFinallyExit
    \/ RunnerDiscStop
    \/ RunnerDiscTest
    \/ RunnerDiscExit
    \/ RunnerDiscClose
    \/ RunnerDiscRelease
    \/ Signal
    \/ HandlerExit

RunnerSpec == RunnerInit /\ [][RunnerNext]_vars

----------------------------------------------------------------------------
(* Relocating files into the session directory *)

\* An existence test that never finds the destination.
dest_never_exists(d) == FALSE

\* `dest_path.exists()`
dest_exists(d) == session_dir_files[d] # <<"absent", 0>>

\* move_quicktime_files: the files of qt_files in the order of its loops,
\* each with its type, its index from 1 and the number found of its type.
MoveList(counts) ==
    LET OfType(t) == [i \in 1..counts[t] |-> [type |-> t, idx |-> i, of |-> counts[t]]]
    IN  OfType(QuicktimeTypes[1]) \o OfType(QuicktimeTypes[2])

\* `new_name` of move_quicktime_files (lines 155-158).
move_new_name(f) ==
    IF f.of = 1 THEN <<"quicktime", f.type, 0>> ELSE <<"quicktime", f.type, f.idx>>

\* `count` of copy_project_files for the i-th file: type_counts after it.
type_count(files, i) == Cardinality({j \in 1..i : files[j].type = files[i].type})

\* `new_name` of copy_project_files (lines 125-128).
copy_new_name(files, i) ==
    IF type_count(files, i) = 1 THEN <<"ableton", files[i].type, 0>>
    ELSE <<"ableton", files[i].type, type_count(files, i)>>

\* The lists find_session_files can return, as file types in list order.
CopyLists ==
    UNION {[1..n -> {[type |-> t] : t \in AbletonTypes}] : n \in 0..MaxFound}

\* The result copy_project_files returns after its loop (lines 150-165).
copy_result(failed_files, scan_errors) ==
    IF failed_files # <<>> \/ scan_errors THEN "failure" ELSE "success"

\* The locals after the loop's last file: the function returns.
AfterFile(r) ==
    IF r.next <= Len(r.files) THEN r
    ELSE [r EXCEPT !.result = IF r.op = "copy" THEN copy_result(r.failed, r.scan_errors)
                              ELSE "returned"]

\* move_quicktime_files(session_dir, session_id, qt_files, logger) is called.
StartMove ==
    /\ reloc.op = "none"
    /\ \E counts \in [Range(QuicktimeTypes) -> 0..MaxFound] :
          /\ reloc' = AfterFile([NoReloc EXCEPT !.op = "move", !.files = MoveList(counts),
                                                !.attempts = [i \in 1..Len(MoveList(counts)) |-> 0]])
          /\ at_source' = {<<"move", i>> : i \in 1..Len(MoveList(counts))}
    /\ UNCHANGED session_dir_files
    /\ UNCHANGED <<lightsVars, huntVars, sessionVars, logVars, runnerVars, waitVars, quitVars, patternVars>>

\* One file of move_quicktime_files' loop: an existing destination is
\* logged as failed; else shutil.move moves the file, or raises OSError
\* with the source in place and the destination absent or partly written.
MoveFile ==
    /\ reloc.op = "move"
    /\ reloc.result = "none"
    /\ LET i == reloc.next
           d == move_new_name(reloc.files[i])
           r == [reloc EXCEPT !.next = i + 1, !.attempts[i] = @ + 1]
       IN  IF dest_exists(d)
           THEN /\ reloc' = AfterFile([r EXCEPT !.failed = Append(@, i)])
                /\ UNCHANGED <<session_dir_files, at_source>>
           ELSE \/ /\ session_dir_files' = [session_dir_files EXCEPT ![d] = <<"move", i>>]
                   /\ at_source' = at_source \ {<<"move", i>>}
                   /\ reloc' = AfterFile([r EXCEPT !.copied = Append(@, d)])
                \/ /\ session_dir_files' \in {session_dir_files,
                                               [session_dir_files EXCEPT ![d] = <<"partial", 0>>]}
                   /\ UNCHANGED at_source
                   /\ reloc' = AfterFile([r EXCEPT !.failed = Append(@, i)])
    /\ UNCHANGED <<lightsVars, huntVars, sessionVars, logVars, runnerVars, waitVars, quitVars, patternVars>>

\* copy_project_files(session_dir, session_id) is called: what
\* find_session_files returns, and the two early returns (lines 93-108).
StartCopy ==
    /\ reloc.op = "none"
    /\ \E files \in CopyLists, scan_errors, dir_exists \in BOOLEAN :
          LET r == [NoReloc EXCEPT !.op = "copy", !.files = files,
                                   !.scan_errors = scan_errors, !.dir_exists = dir_exists,
                                   !.attempts = [i \in 1..Len(files) |-> 0]]
          IN  /\ reloc' = IF files = <<>> /\ ~scan_errors THEN [r EXCEPT !.result = "success"]
                          ELSE IF ~dir_exists THEN [r EXCEPT !.result = "failure"]
                          ELSE AfterFile(r)
              /\ at_source' = {<<"copy", i>> : i \in 1..Len(files)}
    /\ UNCHANGED session_dir_files
    /\ UNCHANGED <<lightsVars, huntVars, sessionVars, logVars, runnerVars, waitVars, quitVars, patternVars>>

\* One file of copy_project_files' loop: an existing destination makes the
\* file a failed one; else shutil.copy2 copies it, or raises OSError with
\* the destination absent or partly written.
CopyFile ==
    /\ reloc.op = "copy"
    /\ reloc.result = "none"
    /\ LET i == reloc.next
           d == copy_new_name(reloc.files, i)
           r == [reloc EXCEPT !.next = i + 1, !.attempts[i] = @ + 1]
       IN  IF dest_exists(d)
           THEN /\ reloc' = AfterFile([r EXCEPT !.failed = Append(@, i)])
                /\ UNCHANGED session_dir_files
           ELSE \/ /\ session_dir_files' = [session_dir_files EXCEPT ![d] = <<"copy", i>>]
                   /\ reloc' = AfterFile([r EXCEPT !.copied = Append(@, d)])
                \/ /\ session_dir_files' \in {session_dir_files,
                                               [session_dir_files EXCEPT ![d] = <<"partial", 0>>]}
                   /\ reloc' = AfterFile([r EXCEPT !.failed = Append(@, i)])
    /\ UNCHANGED at_source
    /\ UNCHANGED <<lightsVars, huntVars, sessionVars, logVars, runnerVars, waitVars, quitVars, patternVars>>

\* Step 3 or step 5 of shutdown, on a session directory that holds any of
\* the followed names already.
FilesInit ==
    /\ LightsInit
    /\ mido
    /\ ~logger
    /\ HuntStart(SampleDot)
    /\ SessionStart("none")
    /\ LogStart(FALSE, <<>>)
    /\ RunnerIdle
    /\ \E old \in SUBSET OldNames : FilesStart(old)
    /\ WaitStart([f \in WatchedFiles |-> -1])
    /\ QuitStart(FALSE)
    /\ PatternStart

FilesNext == StartMove \/ MoveFile \/ StartCopy \/ CopyFile

FilesSpec == FilesInit /\ [][FilesNext]_vars

----------------------------------------------------------------------------
(* wait_for_files_stable *)

\* `current_files = list(directory.glob(pattern))`
current_files == {f \in WatchedFiles : desktop[f].size >= 0}

\* The size of f was not seen before, or differs from the one seen last.
size_changed(f) == wait.last_sizes[f] # desktop[f].size

\* wait_for_files_stable(...) is called: start_time = time.time().
StartWait ==
    /\ wait.state = "idle"
    /\ wait' = [wait EXCEPT !.state = "polling"]
    /\ UNCHANGED desktop
    /\ UNCHANGED <<lightsVars, huntVars, sessionVars, logVars, runnerVars, filesVars, quitVars, patternVars>>

\* One pass of the loop: the sizes are compared with the ones seen last,
\* the files stable for stability_seconds are returned if there are any,
\* else time.sleep(0.5). The files of this model are never removed, so
\* stat() does not raise.
Poll ==
    /\ wait.state = "polling"
    /\ wait.now < MaxWaitTicks
    /\ LET last == [f \in WatchedFiles |->
                       IF f \in current_files /\ size_changed(f) THEN desktop[f].size
                       ELSE wait.last_sizes[f]]
           since == [f \in WatchedFiles |->
                        IF f \in current_files /\ size_changed(f) THEN wait.now
                        ELSE wait.stable_since[f]]
           stable_files == {f \in current_files :
                               since[f] >= 0 /\ wait.now - since[f] >= StabilityTicks}
       IN  wait' = IF stable_files # {}
                   THEN [wait EXCEPT !.last_sizes = last, !.stable_since = since,
                                     !.state = "returned", !.result = stable_files]
                   ELSE [wait EXCEPT !.last_sizes = last, !.stable_since = since,
                                     !.now = @ + 1]
    /\ UNCHANGED desktop
    /\ UNCHANGED <<lightsVars, huntVars, sessionVars, logVars, runnerVars, filesVars, quitVars, patternVars>>

\* `while time.time() - start_time < timeout_seconds` fails: `return []`.
WaitTimesOut ==
    /\ wait.state = "polling"
    /\ wait.now >= MaxWaitTicks
    /\ wait' = [wait EXCEPT !.state = "timeout", !.result = {}]
    /\ UNCHANGED desktop
    /\ UNCHANGED <<lightsVars, huntVars, sessionVars, logVars, runnerVars, filesVars, quitVars, patternVars>>

\* While the call waits, the recorder saves: a file appears, or grows.
FileGrows ==
    /\ wait.state = "polling"
    /\ \E f \in WatchedFiles :
          /\ desktop[f].size < MaxSize
          /\ desktop' = [desktop EXCEPT ![f] = [size |-> @.size + 1, changed_at |-> wait.now]]
    /\ UNCHANGED wait
    /\ UNCHANGED <<lightsVars, huntVars, sessionVars, logVars, runnerVars, filesVars, quitVars, patternVars>>

\* One call, on a directory where each matching file is absent or there.
WaitInit ==
    /\ LightsInit
    /\ mido
    /\ ~logger
    /\ HuntStart(SampleDot)
    /\ SessionStart("none")
    /\ LogStart(FALSE, <<>>)
    /\ RunnerIdle
    /\ FilesStart({})
    /\ \E sizes \in [WatchedFiles -> -1..1] : WaitStart(sizes)
    /\ QuitStart(FALSE)
    /\ PatternStart

WaitNext == StartWait \/ Poll \/ WaitTimesOut \/ FileGrows

WaitSpec == WaitInit /\ [][WaitNext]_vars

----------------------------------------------------------------------------
(* quit_app *)

\* A loop that polls once more, at elapsed = termination_timeout.
keep_polling_late(elapsed, timeout) == elapsed <= timeout

\* `poll_interval = 0.5`, in quarters of a second.
poll_interval == 2

\* `while elapsed < termination_timeout:`, both in quarters of a second.
keep_polling(elapsed, timeout) == elapsed < timeout

\* What is_app_running can return: whether System Events lists the process,
\* and False when osascript fails or prints anything else.
is_app_running == IF app_running THEN {TRUE, FALSE} ELSE {FALSE}

\* quit_app returns.
QuitReturn(q, res) == [q EXCEPT !.pc = "returned", !.result = res]

\* quit_app(app_name, ...) is called, up to `if not is_app_running(...)`:
\* the application found not running is a success.
QuitApp ==
    /\ quit.pc = "idle"
    /\ \E w \in BOOLEAN, t \in 0..MaxQuitTicks, found_running \in is_app_running :
          LET q == [quit EXCEPT !.wait_for_termination = w, !.timeout = t]
          IN  quit' = IF ~found_running
                      THEN QuitReturn([q EXCEPT !.seen_not_running = TRUE], "success")
                      ELSE [q EXCEPT !.pc = "command"]
    /\ UNCHANGED app_running
    /\ UNCHANGED <<lightsVars, huntVars, sessionVars, logVars, runnerVars, filesVars, waitVars,
                 patternVars>>

\* The quit command is run through osascript: subprocess.run raises, the
\* script fails, or it is delivered; then to the loop, or `return` when
\* the call is not to wait.
QuitCommand ==
    /\ quit.pc = "command"
    /\ \E delivered \in BOOLEAN :
          quit' = IF ~delivered THEN QuitReturn(quit, "failure")
                  ELSE IF quit.wait_for_termination
                  THEN [quit EXCEPT !.pc = "polling", !.delivered = TRUE]
                  ELSE QuitReturn([quit EXCEPT !.delivered = TRUE], "success")
    /\ UNCHANGED app_running
    /\ UNCHANGED <<lightsVars, huntVars, sessionVars, logVars, runnerVars, filesVars, waitVars,
                 patternVars>>

\* One pass of the loop: the application found not running is a success,
\* else time.sleep(poll_interval); the loop's end is the timeout failure.
QuitPoll ==
    /\ quit.pc = "polling"
    /\ \E found_running \in is_app_running :
          quit' = IF ~keep_polling(quit.elapsed, quit.timeout)
                  THEN QuitReturn(quit, "failure")
                  ELSE IF ~found_running
                  THEN QuitReturn([quit EXCEPT !.polls = @ + 1, !.seen_not_running = TRUE],
                                  "success")
                  ELSE [quit EXCEPT !.polls = @ + 1, !.elapsed = @ + poll_interval]
    /\ UNCHANGED app_running
    /\ UNCHANGED <<lightsVars, huntVars, sessionVars, logVars, runnerVars, filesVars, waitVars,
                 patternVars>>

\* The application's process ends, once it was told to quit.
AppTerminates ==
    /\ quit.pc = "polling"
    /\ app_running
    /\ app_running' = FALSE
    /\ UNCHANGED quit
    /\ UNCHANGED <<lightsVars, huntVars, sessionVars, logVars, runnerVars, filesVars, waitVars,
                 patternVars>>

QuitInit ==
    /\ LightsInit
    /\ mido
    /\ ~logger
    /\ HuntStart(SampleDot)
    /\ SessionStart("none")
    /\ LogStart(FALSE, <<>>)
    /\ RunnerIdle
    /\ FilesStart({})
    /\ WaitStart([f \in WatchedFiles |-> -1])
    /\ \E is_running \in BOOLEAN : QuitStart(is_running)
    /\ PatternStart

QuitNext == QuitApp \/ QuitCommand \/ QuitPoll \/ AppTerminates

QuitSpec == QuitInit /\ [][QuitNext]_vars

----------------------------------------------------------------------------
(* One run of _pattern_snake or _pattern_spiral, frame by frame *)

\* A row as it is.
not_reversed(row) == row

\* reversed(row).
reversed(row) == [i \in 1..Len(row) |-> row[Len(row) + 1 - i]]

\* snake_order after the rows PAD_GRID[0] .. PAD_GRID[n - 1] of
\* `for i, row in enumerate(PAD_GRID):`.
RECURSIVE snake_rows(_)
snake_rows(n) ==
    IF n = 0 THEN <<>>
    ELSE LET i == n - 1
             row == PAD_GRID[i + 1]
         IN  snake_rows(n - 1) \o (IF i % 2 = 0 THEN row ELSE reversed(row))

snake_order == snake_rows(Len(PAD_GRID))

\* [f(k) for k in range(n)], nothing when n <= 0.
Listed(n, f(_)) == [k \in 1..n |-> f(k - 1)]

\* The list `spiral` from the loop test `while top <= bottom and left <= right:`
\* on, with the four sides of one ring appended per iteration.
RECURSIVE spiral_from(_, _, _, _, _)
spiral_from(top, bottom, left, right, acc) ==
    IF ~(top <= bottom /\ left <= right) THEN acc
    ELSE LET top_side(k) == PadNote(top, left + k)
             acc1 == acc \o Listed(right + 1 - left, top_side)
             top1 == top + 1
             right_side(k) == PadNote(top1 + k, right)
             acc2 == acc1 \o Listed(bottom + 1 - top1, right_side)
             right1 == right - 1
             bottom_side(k) == PadNote(bottom, right1 - k)
             acc3 == IF top1 <= bottom
                     THEN acc2 \o Listed(right1 - (left - 1), bottom_side)
                     ELSE acc2
             bottom1 == IF top1 <= bottom THEN bottom - 1 ELSE bottom
             left_side(k) == PadNote(bottom1 - k, left)
             acc4 == IF left <= right1
                     THEN acc3 \o Listed(bottom1 - (top1 - 1), left_side)
                     ELSE acc3
             left1 == IF left <= right1 THEN left + 1 ELSE left
         IN  spiral_from(top1, bottom1, left1, right1, acc4)

\* `top, bottom, left, right = 0, 7, 0, 7` and the loop.
spiral == spiral_from(0, 7, 0, 7, <<>>)

ChasePatterns == {"snake", "spiral"}

\* What the two functions differ in: the order, trail_length, the palette,
\* and the step of color_index after a pass.
traversal_order(p) == IF p = "snake" THEN snake_order ELSE spiral
trail_length(p) == IF p = "snake" THEN 8 ELSE 10
palette(p) == IF p = "snake" THEN WARM_COLORS ELSE ALL_COLORS
color_step(p) == IF p = "snake" THEN 1 ELSE 2

\* The _set_led calls of one frame, head first: note, color and pulse for
\* every trail_offset whose pos is on the order.
chase_frame(p, order, head_pos, color_index) ==
    LET on_order == {k \in 0..(trail_length(p) - 1) :
                        0 <= head_pos - k /\ head_pos - k < Len(order)}
        first == IF head_pos < Len(order) THEN 0 ELSE head_pos - (Len(order) - 1)
        led(k) == [note |-> order[head_pos - (first + k) + 1],
                   color |-> palette(p)[((color_index + first + k) % Len(palette(p))) + 1],
                   pulse |-> (first + k = 0)]
    IN  Listed(Cardinality(on_order), led)

\* The function is entered: the order is built, `color_index = 0`.
StartChase ==
    /\ walk.pattern = "none"
    /\ \E p \in ChasePatterns :
          walk' = [NoWalk EXCEPT !.pattern = p, !.order = traversal_order(p)]
    /\ UNCHANGED sparkle
    /\ UNCHANGED <<lightsVars, huntVars, sessionVars, logVars, runnerVars, filesVars,
                   waitVars, quitVars>>

\* One iteration of `for head_pos in range(len(order) + trail_length):`
\* that does not break: the frame is cleared and drawn.
ChaseFrame ==
    /\ walk.pattern # "none"
    /\ walk.head_pos < Len(walk.order) + trail_length(walk.pattern)
    /\ walk' = [walk EXCEPT
                  !.frame = chase_frame(walk.pattern, walk.order, walk.head_pos,
                                        walk.color_index),
                  !.head_pos = @ + 1]
    /\ UNCHANGED sparkle
    /\ UNCHANGED <<lightsVars, huntVars, sessionVars, logVars, runnerVars, filesVars,
                   waitVars, quitVars>>

\* The for loop is exhausted: color_index steps on and, the while test
\* holding, the next pass begins.
ChaseNextPass ==
    /\ walk.pattern # "none"
    /\ walk.head_pos = Len(walk.order) + trail_length(walk.pattern)
    /\ walk' = [walk EXCEPT
                  !.head_pos = 0,
                  !.color_index = (@ + color_step(walk.pattern))
                                     % Len(palette(walk.pattern))]
    /\ UNCHANGED sparkle
    /\ UNCHANGED <<lightsVars, huntVars, sessionVars, logVars, runnerVars, filesVars,
                   waitVars, quitVars>>

\* The flag is found cleared or the duration is over, at the `break` or at
\* the while test: the function returns.
ChaseReturns ==
    /\ walk.pattern # "none"
    /\ walk' = NoWalk
    /\ UNCHANGED sparkle
    /\ UNCHANGED <<lightsVars, huntVars, sessionVars, logVars, runnerVars, filesVars,
                   waitVars, quitVars>>

\* A chase pattern run on an instance that is left alone.
ChaseInit ==
    /\ LightsInit
    /\ mido
    /\ ~logger
    /\ HuntStart(SampleDot)
    /\ SessionStart("none")
    /\ LogStart(FALSE, <<>>)
    /\ ExtraStart

ChaseNext == StartChase \/ ChaseFrame \/ ChaseNextPass \/ ChaseReturns

ChaseSpec == ChaseInit /\ [][ChaseNext]_vars

----------------------------------------------------------------------------
(* One run of _pattern_sparkle, frame by frame *)

\* `len(active_pads) < 12`.
sparkle_cap == 12

\* A pad is taken for new whatever active_pads holds.
always_new(note, pads) == TRUE

\* `if note not in active_pads:`.
not_active(note, pads) == note \notin pads

\* The notes random.choice(random.choice(PAD_GRID)) is followed for: of the
\* pads that are active and of those that are not, the first of the grid.
SparkleDraws(pads) ==
    LET first(S) == ClearOrder[CHOOSE i \in S : \A j \in S : i <= j]
        free == {i \in 1..64 : ClearOrder[i] \notin pads}
        used == {i \in 1..64 : ClearOrder[i] \in pads}
    IN  {first(free)} \cup (IF used = {} THEN {} ELSE {first(used)})

\* The function is entered (again): `active_pads = {}`.
StartSparkle ==
    /\ sparkle.pc \in {"idle", "returned"}
    /\ sparkle' = [NoSparkle EXCEPT !.pc = "loop"]
    /\ UNCHANGED walk
    /\ UNCHANGED <<lightsVars, huntVars, sessionVars, logVars, runnerVars, filesVars,
                   waitVars, quitVars>>

\* One iteration of the while loop. `expired` is any part of the active
\* pads: a pad's time is up 0.2 to 0.8 s after `now` of the iteration that
\* lit it, and an iteration lasts the 0.05 s of its sleep or longer. The
\* expired pads are sent the off color and deleted; then, below the cap and
\* with random.random() > 0.3, a pad is drawn and, when it is not active,
\* sent a color and entered.
SparkleFrame ==
    /\ sparkle.pc = "loop"
    /\ \E expired \in SUBSET sparkle.active_pads :
          LET pads == sparkle.active_pads \ expired
              shown == sparkle.shown \ expired
          IN  \E roll \in BOOLEAN :
                 IF Cardinality(pads) < sparkle_cap /\ roll
                 THEN \E note \in SparkleDraws(pads) :
                         sparkle' =
                            IF not_active(note, pads)
                            THEN [sparkle EXCEPT
                                     !.active_pads = pads \cup {note},
                                     !.shown = shown \cup {note},
                                     !.reactivated = @ \/ note \in pads]
                            ELSE [sparkle EXCEPT !.active_pads = pads, !.shown = shown]
                 ELSE sparkle' = [sparkle EXCEPT !.active_pads = pads, !.shown = shown]
    /\ UNCHANGED walk
    /\ UNCHANGED <<lightsVars, huntVars, sessionVars, logVars, runnerVars, filesVars,
                   waitVars, quitVars>>

\* The while test fails (flag cleared or duration over): "Clear remaining"
\* sends the off color to every key of active_pads, and the function returns.
SparkleReturns ==
    /\ sparkle.pc = "loop"
    /\ sparkle' = [sparkle EXCEPT !.pc = "returned", !.shown = @ \ sparkle.active_pads]
    /\ UNCHANGED walk
    /\ UNCHANGED <<lightsVars, huntVars, sessionVars, logVars, runnerVars, filesVars,
                   waitVars, quitVars>>

\* The port's send() raises at the first _set_led of an iteration or of
\* "Clear remaining": the exception leaves the function.
SparkleRaises ==
    /\ sparkle.pc = "loop"
    /\ sparkle.active_pads # {}
    /\ sparkle' = [sparkle EXCEPT !.pc = "raised"]
    /\ UNCHANGED walk
    /\ UNCHANGED <<lightsVars, huntVars, sessionVars, logVars, runnerVars, filesVars,
                   waitVars, quitVars>>

\* Runs of the sparkle pattern on a connected instance that is left alone.
SparkleInit ==
    /\ LightsInit
    /\ mido
    /\ ~logger
    /\ HuntStart(SampleDot)
    /\ SessionStart("none")
    /\ LogStart(FALSE, <<>>)
    /\ ExtraStart

SparkleNext == StartSparkle \/ SparkleFrame \/ SparkleReturns \/ SparkleRaises

SparkleSpec == SparkleInit /\ [][SparkleNext]_vars

----------------------------------------------------------------------------
(* Properties of the lifecycle *)

\* The render threads inside a pattern function's frame loop.
InPatternLoop == {t \in Threads : tpc[t] \in {"pattern", "frame"}}

\* The render threads that have been started and have not ended.
ActiveThreads == {t \in Threads : tpc[t] \notin {"unborn", "done", "crashed"}}

\* The caller has the result of lastCall in hand and has made no call since.
Returned(op) == mpc = "idle" /\ lastCall.op = op

\* This step is a call of op that returns within the step.
CallStep(op) ==
    mpc = "idle" /\ ncalls' = ncalls + 1 /\ mpc' = "idle" /\ lastCall'.op = op

\* The step sends nothing to the device.
NothingSent == lit' = lit /\ mode' = mode /\ exitSent' = exitSent

\* C1: at any time at most one render thread is executing a pattern loop,
\* also when stop()'s join timed out and start() was called again.
C1_OnePatternLoop == Cardinality(InPatternLoop) <= 1

\* C2: when start() is called twice in a row on a reachable device, both
\* calls return success, the second creates no thread and opens no channel,
\* and exactly one render thread is active afterwards.
C2_StartTwice ==
    (/\ Returned("start")
     /\ prevCall.op = "start"
     /\ prevCall.conn \in {"none", "opened"}
     /\ lastCall.conn \in {"none", "opened"})
    => /\ prevCall.res = "True"
       /\ lastCall.res = "True"
       /\ ~lastCall.newThread
       /\ lastCall.conn = "none"
       /\ Cardinality(ActiveThreads) = 1

\* C3: when stop() and then disconnect() have returned on an instance that
\* was running, no cell of the device is left with a non-zero colour (the
\* last colour of each of the 72 cells is 0 and no cell was lit after the
\* final clear) and the exit-programmer-mode message has been sent.
C3_DarkAfterStopDisconnect ==
    (/\ Returned("disconnect")
     /\ lastCall.res = "None"
     /\ prevCall.op = "stop"
     /\ prevCall.pre = "Running"
     /\ prevCall.res = "None")
    => lit = {} /\ exitSent

\* C4: when a send of disconnect()'s device reset has failed, the port's
\* close() has still been called and the handle is cleared once disconnect()
\* has returned.
C4_ReleaseAfterFailedReset ==
    (Returned("disconnect") /\ lastCall.res = "None" /\ lastCall.resetFailed)
    => closeCalls[lastCall.port] >= 1 /\ outport = 0

\* C5: a connect() that finds mido unavailable, no matching output name, or
\* open_output raising returns False without raising, sends no message and
\* leaves no port handle behind (none on an instance that had none, no other
\* than before on one that had one).
C5_ConnectFailsQuietly ==
    [][(CallStep("connect") /\ lastCall'.conn \in {"no_mido", "not_found", "open_error"})
       => /\ lastCall'.res = "False"
          /\ NothingSent
          /\ outport' = outport]_vars

\* C6: no public operation raises to its caller: every call ends with a
\* return value.
C6_NoCallRaises == lastCall.res # "raised"

C8_AfterDisconnect ==
    (Returned("disconnect") /\ lastCall.res = "None")
    => /\ ~running
       /\ thread = 0
       /\ outport = 0
       /\ (lastCall.port # 0 => closeCalls[lastCall.port] = 1)

\* C9: a stop() on an instance that is not running changes nothing: the
\* running flag, the thread reference and the port handle are as before,
\* nothing is sent, no log entry is written, and the call returns.
C9_StopIdleNoOp ==
    [][(CallStep("stop") /\ ~running)
       => /\ running' = running
          /\ thread' = thread
          /\ outport' = outport
          /\ portState' = portState
          /\ closeCalls' = closeCalls
          /\ tpc' = tpc
          /\ NothingSent
          /\ lastCall'.logs = 0
          /\ lastCall'.res = "None"]_vars

\* Two stop() calls in a row on a connected instance that is not running.
C9_Witness ==
    /\ Returned("stop")
    /\ lastCall.pre = "Connected"
    /\ prevCall.op = "stop"
    /\ prevCall.pre = "Connected"
    /\ outport # 0

\* C10: a failure of a send while a pattern is running is dropped: it never
\* ends the render thread, which goes on to its final clear and mode reset.
C10_SendFailureDropped ==
    \A t \in Threads : ~(tpc[t] = "crashed" /\ tpat[t] # "none")

----------------------------------------------------------------------------
(* Properties of the hunt pattern *)

\* This step is a snake tick of the run.
SnakeTickStep == since_dot' = since_dot + 1

\* C11: after any snake move the new head, and after any dot move or respawn
\* the dot, has row and column both in 0..7.
C11_HeadAndDotOnGrid == snake[1] \in Grid /\ dot \in Grid

\* The dot has moved and is on the top edge, where the clamp acts on every
\* step away from the grid.
C11_Witness == tick.kind = "dot" /\ tick.moved /\ dot[1] = 0 /\ snake[1] \in Grid

\* C12: in every state of a run, the initial one included, every element of
\* the snake is a grid position with row and column each in 0..7.
C12_SnakeOnGrid == \A i \in 1..Len(snake) : snake[i] \in Grid

\* C13: the snake has exactly 5 elements in every state of a run, whether a
\* tick moved it or found it blocked.
C13_SnakeLength == Len(snake) = 5

\* Five snake ticks have moved the snake: no element of the initial snake is
\* left in it.
C13_Witness ==
    /\ tick.kind = "snake"
    /\ tick.moved
    /\ Len(snake) = 5
    /\ \A i \in 1..Len(snake) : snake[i] \notin Range(InitSnake)

\* C14: a snake tick never moves the head onto a cell that the body (every
\* element of the snake but the head) occupies at that moment.
C14_NoMoveOntoBody ==
    [][(SnakeTickStep /\ tick'.moved) => snake'[1] \notin Body(snake)]_vars

\* The snake has moved to a cell next to a cell of its body further back.
C14_Witness ==
    /\ tick.kind = "snake"
    /\ tick.moved
    /\ \E i \in 3..Len(snake) : square_distance(snake[1], snake[i]) = 1

\* C15: after every snake tick the head's position does not occur at any of
\* the indices 1..4 of the snake (the trailing body), also when the snake had
\* no valid move.
C15_HeadOffTrailingBody == \A i \in 2..Len(snake) : snake[i] # snake[1]

\* A snake tick has moved the head into a corner of the grid.
C15_Witness ==
    /\ tick.kind = "snake"
    /\ tick.moved
    /\ snake[1] \in {<<0, 0>>, <<0, 7>>, <<7, 0>>, <<7, 7>>}
    /\ \A i \in 2..Len(snake) : snake[i] # snake[1]

\* C16: in every state of a run (after the initial spawn, after any dot move
\* and after any respawn) the dot is not one of the twelve forbidden cells.
C16_DotNotForbidden == dot \notin DOT_FORBIDDEN

\* The dot has moved to a cell next to a forbidden one.
C16_Witness ==
    /\ tick.kind = "dot"
    /\ tick.moved
    /\ dot \notin DOT_FORBIDDEN
    /\ \E p \in DOT_FORBIDDEN : square_distance(dot, p) = 1

\* C17: whenever a snake tick ends the snake's move with the head on the
\* dot's cell, the dot's colour index after the tick differs from the one
\* before it and the respawned dot is on no cell of the snake.
C17_CatchRecolorsAndRespawns ==
    [][(SnakeTickStep /\ tick'.caught)
       => dot_color_idx' # dot_color_idx /\ dot' \notin Range(snake')]_vars

\* The snake has just caught the dot.
C17_Witness ==
    tick.kind = "snake" /\ tick.caught /\ dot # snake[1] /\ dot_color_idx # 0

\* C18: with the snake as _pattern_hunt builds it (head at (3,3), body to
\* the left along row 3) and the dot at (0,3), the head is at (3,4) or (2,3)
\* after one snake tick, whatever the coin of the tie-break.
C18_FirstTickTowardDot ==
    [][(SnakeTickStep /\ snake = InitSnake /\ dot = <<0, 3>>)
       => snake'[1] \in {<<3, 4>>, <<2, 3>>}]_vars

\* The first tick of a run whose dot was spawned at (0,3).
C18_Witness ==
    /\ tick.kind = "snake"
    /\ since_dot = 1
    /\ dot = <<0, 3>>
    /\ snake = <<<<2, 3>>, <<3, 3>>, <<3, 2>>, <<3, 1>>, <<3, 0>>>>

----------------------------------------------------------------------------
(* Properties of the session scripts *)

\* The script has returned an exit code.
Exited(c) == command = c /\ cpc = "returned"

\* C19: the shutdown command returns exit code 1 if any of its sub-steps
\* failed (stopping recordings, moving a recording file, quitting QuickTime,
\* copying Ableton files, closing Ableton, uploading) and exit code 0 only
\* when every sub-step succeeded.
C19_ShutdownExitCode ==
    Exited("shutdown") =>
        /\ failed # {} => exit_code = 1
        /\ exit_code = 0 => failed = {}

\* C20: the setup command returns exit code 1 if any of its sub-steps failed
\* (the device-presence check, the QuickTime launch or the Chrome launch) and
\* exit code 0 only when every sub-step succeeded.
C20_SetupExitCode ==
    Exited("setup") =>
        /\ failed # {} => exit_code = 1
        /\ exit_code = 0 => failed = {}

\* `if now - last_dot_move >= dot_speed:` held in this step.
DotTickStep == since_dot >= 1 /\ since_dot' = 0

\* The cell one unclamped step of d from p.
Step(p, d) == <<p[1] + d[1], p[2] + d[2]>>

\* d is one of the four axis moves, in bounds and not onto the body.
ValidMove(head, d, s) == Step(head, d) \in Grid /\ Step(head, d) \notin Body(s)

\* d strictly reduces the Manhattan distance from head to target.
Reduces(head, d, target) ==
    Abs(target[1] - Step(head, d)[1]) + Abs(target[2] - Step(head, d)[2])
        < Abs(target[1] - head[1]) + Abs(target[2] - head[2])

\* C23: if at least one of the four axis moves is valid and strictly reduces
\* the Manhattan distance to the target, the direction _choose_snake_direction
\* returns is valid, strictly reduces the distance, and has the maximal score
\* among the valid directions.
C23_GreedyDirection ==
    [][(/\ SnakeTickStep
        /\ \E i \in 1..Len(SNAKE_DIRS) :
               ValidMove(snake[1], SNAKE_DIRS[i], snake) /\ Reduces(snake[1], SNAKE_DIRS[i], dot))
       => /\ ValidMove(snake[1], snake_dir', snake)
          /\ Reduces(snake[1], snake_dir', dot)
          /\ \A i \in 1..Len(SNAKE_DIRS) :
                 ValidMove(snake[1], SNAKE_DIRS[i], snake)
                 => score_dir(SNAKE_DIRS[i], dot[1] - snake[1][1], dot[2] - snake[1][2])
                      <= score_dir(snake_dir', dot[1] - snake[1][1], dot[2] - snake[1][2])]_vars

\* A snake tick chose between a row move and a column move that both lead
\* to the dot, took one, and came closer without catching.
C23_Witness ==
    /\ tick.kind = "snake"
    /\ tick.moved
    /\ ~tick.caught
    /\ dot[1] # snake[2][1]
    /\ dot[2] # snake[2][2]
    /\ Abs(dot[1] - snake[1][1]) + Abs(dot[2] - snake[1][2])
         < Abs(dot[1] - snake[2][1]) + Abs(dot[2] - snake[2][2])

\* The in-grid 8-neighbours of p that are not forbidden (out-of-grid moves
\* discarded).
Neighbours(p) ==
    {q \in Grid : q # p /\ Abs(q[1] - p[1]) <= 1 /\ Abs(q[2] - p[2]) <= 1} \ DOT_FORBIDDEN

\* The candidate cells of _move_dot_away (out-of-grid moves clamped).
ClampedCandidates(p) ==
    {ClampedStep(p, DOT_DIRS[i]) : i \in 1..Len(DOT_DIRS)} \ ({p} \cup DOT_FORBIDDEN)

FarSpawnCells(s) ==
    {p \in Grid : /\ p \notin DOT_FORBIDDEN
                  /\ p \notin Range(s)
                  /\ Abs(p[1] - s[1][1]) + Abs(p[2] - s[1][2]) >= 3}

\* C26: for every reachable chaser configuration a cell exists that is not
\* forbidden, not occupied by the chaser and at Manhattan distance at least 3
\* from its head (so the respawn loop ends under fair random choice), and
\* the cell _spawn_dot_away_from returned is never forbidden and never a
\* chaser cell.
C26_SpawnEnds ==
    /\ FarSpawnCells(snake) # {}
    /\ (tick.kind = "start" \/ tick.caught)
         => dot \notin DOT_FORBIDDEN /\ dot \notin Range(snake)

\* A catch in a corner of the grid's interior, the dot respawned near the
\* head (a cell the loop only accepts on the coin toss).
C26_Witness ==
    /\ tick.kind = "snake"
    /\ tick.caught
    /\ Abs(dot[1] - snake[1][1]) + Abs(dot[2] - snake[1][2]) < 3
    /\ dot \notin Range(snake)

\* C29: in every frame the pursuit pattern renders, the target cell is
\* different from the chaser head cell.
C29_DotOffHead == dot # snake[1]

\* A dot tick left the dot next to the head.
C29_Witness ==
    /\ tick.kind = "dot"
    /\ tick.moved
    /\ Abs(dot[1] - snake[1][1]) <= 1
    /\ Abs(dot[2] - snake[1][2]) <= 1

\* C30: on every target tick the target changes cell: from the cell it is
\* on at least one legal move exists, so _move_dot_away never returns the
\* cell it was given.
C30_DotAlwaysMoves ==
    [][DotTickStep => ClampedCandidates(dot) # {} /\ dot' # dot]_vars

\* A dot tick moved the dot to a cell next to a forbidden corner, with
\* the head on the same edge.
C30_Witness ==
    /\ tick.kind = "dot"
    /\ tick.moved
    /\ dot \in {<<0, 2>>, <<2, 0>>, <<0, 5>>, <<5, 0>>, <<7, 2>>, <<2, 7>>, <<7, 5>>, <<5, 7>>}
    /\ (snake[1][1] = dot[1] \/ snake[1][2] = dot[2])

----------------------------------------------------------------------------
(* Properties of the messages and of the ports *)

\* The step delivers note_on messages to the device: a _clear_all_leds() or
\* a frame whose sends all returned, on a port that is open.
NotesDelivered ==
    /\ DeviceOpen
    /\ \/ (mpc = "disc_clear" /\ mpc' = "disc_close")
       \/ \E t \in Threads : \/ (tpc[t] = "clear" /\ tpc'[t] = "loop")
                              \/ (tpc[t] = "finalclear" /\ tpc'[t] = "exit")
                              \/ (tpc[t] = "frame" /\ tpc'[t] = "pattern")

\* C27: every note_on message the animator sends, over any sequence of
\* connect, start, stop and disconnect, is sent while the device is in
\* programmer mode: after an enter-programmer-mode message and before the
\* next exit-programmer-mode message.
C27_NotesInProgrammerMode == [][NotesDelivered => mode = "programmer"]_vars

\* The ports the instance opened that are open.
OpenPorts == {p \in Ports : portState[p] = "open"}

\* C28: at most one port opened by the instance is open at any time, and
\* after disconnect() returns every port the instance ever opened has been
\* closed.
C28_NoPortLeak ==
    /\ Cardinality(OpenPorts) <= 1
    /\ (Returned("disconnect") /\ lastCall.res = "None") => OpenPorts = {}

----------------------------------------------------------------------------
(* Properties of the render thread's end *)

\* Render thread t ends in this step.
ThreadEnds(t) == tpc[t] \notin {"done", "crashed"} /\ tpc'[t] \in {"done", "crashed"}

\* C25: once the running flag has been cleared by stop() and is not set
\* again, every render thread, under fair scheduling, eventually leaves its
\* pattern loop and terminates, and the last messages it sends are a clear
\* of all cells followed by the exit-programmer-mode message: with the flag
\* cleared a thread only ends by delivering the exit message, after a final
\* clear that was delivered.
C25_ThreadEndsAfterStop ==
    /\ (<>[](~running)) => <>[](ActiveThreads = {})
    /\ [][\A t \in Threads :
             ~running =>
                /\ ThreadEnds(t) => (tpc[t] = "exit" /\ tpc'[t] = "done" /\ DeviceOpen)
                /\ (tpc[t] = "finalclear" /\ tpc'[t] = "exit") => DeviceOpen]_vars

----------------------------------------------------------------------------
(* Properties of the log file *)

\* Every logger constructed so far is one the scripts construct: setup's
\* JSONLLogger(log_path) with write_schema left at True, or shutdown's
\* SessionLogger.
AsTheScriptsConstruct == JSONLLogger(FALSE) \notin loggers

\* C21: for every log file that did not exist before a logger (setup's
\* JSONLLogger, shutdown's SessionLogger) first wrote to it, the first
\* record in the file is the schema record, so that every record logged
\* afterwards comes after it.
C21_SchemaFirst ==
    (log_new /\ AsTheScriptsConstruct /\ Len(log_file) > 0)
        => log_file[1] = SchemaEntry

\* file is an initial part of file2.
IsPrefix(file, file2) ==
    Len(file) <= Len(file2) /\ SubSeq(file2, 1, Len(file)) = file

\* C22: the log is append-only: over every sequence of logger constructions
\* and log calls on the same file the records already in the file are never
\* removed, reordered or altered, and each successful log call adds exactly
\* one record at the end, containing a timestamp and an action name.
C22_AppendOnly ==
    [][/\ IsPrefix(log_file, log_file')
       /\ (log_call'.op = "log" /\ log_call'.ok)
            => /\ log_file' = Append(log_file, log_call'.entry)
               /\ {"timestamp", "action"} \subseteq log_call'.entry.keys]_vars

\* A file that was found with a record in it has had records of both
\* loggers added after it, with a schema-writing JSONLLogger constructed.
C22_Witness ==
    /\ ~log_new
    /\ Len(log_file) = MaxLogRecords
    /\ JSONLLogger(TRUE) \in loggers
    /\ SessionLogger \in loggers
    /\ log_call.op = "log"
    /\ log_call.ok
    /\ log_file[2] \in JSONLCalls
    /\ log_file[3] \in SessionCalls

----------------------------------------------------------------------------
(* Properties of the standalone runner *)

\* C31: in the standalone runner, wherever SIGTERM or SIGINT arrives after
\* the handlers are registered, the port's close() is called at most once,
\* no message is sent on the port after it has been closed, and the signal
\* handler's disconnect and the finally block's cleanup never both act on
\* the open port.
C31_SignalCleanupOnce ==
    (rpc # "none")
        => /\ \A q \in Ports : closeCalls[q] <= 1
           /\ ~sentOnClosed
           /\ ~({"handler", "finally"} \subseteq portActors)

----------------------------------------------------------------------------
(* Properties of shutdown's argument checks *)

\* The YYYYMMDDTHHMMSSZ format: eight digits, T, six digits, Z.
InFormat(arg) ==
    /\ Len(arg) = 16
    /\ \A i \in (1..8) \cup (10..15) : arg[i] = "0"
    /\ arg[9] = "T"
    /\ arg[16] = "Z"

\* C33: when the session-id argument does not match the YYYYMMDDTHHMMSSZ
\* format or the session directory does not exist, the shutdown command
\* returns 1 without performing any sub-step: no log file is created, no
\* application is stopped or quit, no file is moved, copied or uploaded.
C33_BadArgumentDoesNothing ==
    [][(/\ command = "shutdown"
        /\ cpc = "main"
        /\ cpc' # "main"
        /\ (~InFormat(session_id') \/ ~session_dir_exists'))
          => /\ cpc' = "returned"
             /\ exit_code' = 1
             /\ UNCHANGED <<logVars, failed, moved_files, qt_files, errors_occurred>>]_vars

----------------------------------------------------------------------------
(* Properties of the relocation steps *)

\* The destination name of the i-th file of the running function.
DestOf(r, i) ==
    IF r.op = "move" THEN move_new_name(r.files[i]) ELSE copy_new_name(r.files, i)

\* The step handles one file of a loop.
FileStep == reloc.op \in {"move", "copy"} /\ reloc.result = "none" /\ reloc'.next = reloc.next + 1

\* C32: the relocation and copy steps of shutdown never overwrite or remove
\* a file that already exists in the session directory: when a computed
\* destination name already exists the source file is left in place, the
\* destination is unchanged and the file is reported as failed.
C32_NoOverwrite ==
    [][/\ \A d \in DestNames :
             session_dir_files[d] # <<"absent", 0>> => session_dir_files'[d] = session_dir_files[d]
       /\ (FileStep /\ session_dir_files[DestOf(reloc, reloc.next)] # <<"absent", 0>>)
             => /\ <<reloc.op, reloc.next>> \in at_source'
                /\ reloc'.failed = Append(reloc.failed, reloc.next)
                /\ reloc'.copied = reloc.copied]_vars

\* A move has left a file in place because its name was taken, after it
\* moved another one.
C32_Witness ==
    /\ reloc.op = "move"
    /\ reloc.result = "returned"
    /\ reloc.failed = <<2>>
    /\ Len(reloc.copied) = 1
    /\ <<"move", 2>> \in at_source
    /\ session_dir_files[DestOf(reloc, 2)] = <<"old", 0>>
    /\ session_dir_files[DestOf(reloc, 1)] = <<"move", 1>>

\* C35: copy_project_files attempts every found file exactly once whatever
\* happened to the files before it; every found file ends up in exactly one
\* of the copied list and the failed list; and the result is success
\* exactly when no file failed and no scan error occurred.
C35_CopyAccountsForEveryFile ==
    (reloc.op = "copy" /\ reloc.result # "none")
        => /\ \A i \in 1..Len(reloc.files) :
                 /\ reloc.attempts[i] = 1
                 /\ (copy_new_name(reloc.files, i) \in Range(reloc.copied))
                        # (i \in Range(reloc.failed))
           /\ Len(reloc.copied) + Len(reloc.failed) = Len(reloc.files)
           /\ (reloc.result = "success") <=> (reloc.failed = <<>> /\ ~reloc.scan_errors)

----------------------------------------------------------------------------
(* Properties of wait_for_files_stable *)

\* f has kept its size for stability_seconds.
StableNow(f) == wait.now - desktop[f].changed_at >= StabilityTicks

\* C34: wait_for_files_stable returns a non-empty list only when all files
\* matching the pattern at that poll have kept an unchanged size for at
\* least stability_seconds; a matching file that is still growing is never
\* left out of a non-empty result; and on timeout the result is empty.
C34_AllFilesStable ==
    /\ (wait.state = "returned")
          => /\ wait.result # {}
             /\ \A f \in current_files : f \in wait.result /\ StableNow(f)
    /\ (wait.state = "timeout") => wait.result = {}

----------------------------------------------------------------------------
(* Properties of quit_app *)

\* C36: quit_app with wait_for_termination=True returns success only if
\* the application was observed not running (initially, or at a poll after
\* the quit command); if the application is still running at every poll it
\* stops polling after termination_timeout/0.5 polls (the next whole number
\* when the timeout is not a multiple of 0.5 s) and returns failure.
C36_QuitWaitsForTermination ==
    (quit.wait_for_termination /\ quit.pc # "idle")
        => /\ (quit.polls - 1) * poll_interval < quit.timeout \/ quit.polls = 0
           /\ (quit.result = "success") => quit.seen_not_running
           /\ (quit.pc = "returned" /\ ~quit.seen_not_running)
                 => /\ quit.result = "failure"
                    /\ quit.delivered => quit.polls * poll_interval >= quit.timeout

\* The longest wait has timed out: every poll found the application running.
C36_Witness ==
    /\ quit.wait_for_termination
    /\ quit.pc = "returned"
    /\ quit.result = "failure"
    /\ quit.delivered
    /\ quit.timeout = MaxQuitTicks
    /\ quit.polls > 1
    /\ ~quit.seen_not_running
    /\ app_running

----------------------------------------------------------------------------
(* Properties of the chase patterns *)

\* The row and column of a pad of the grid.
GridPos(note) == CHOOSE rc \in (0..7) \X (0..7) : PadNote(rc[1], rc[2]) = note

Distance(a, b) == IF a >= b THEN a - b ELSE b - a

\* Two pads next to each other in a row or in a column.
Adjacent(a, b) ==
    Distance(GridPos(a)[1], GridPos(b)[1]) + Distance(GridPos(a)[2], GridPos(b)[2]) = 1

GridNotes == {PadNote(r, c) : r \in 0..7, c \in 0..7}

\* C37: the traversal orders of the chase pattern (boustrophedon over the
\* rows) and of the spiral pattern (rings peeled from the outside inward)
\* each contain every one of the 64 grid cells exactly once, and consecutive
\* cells of each order are horizontally or vertically adjacent on the grid.
C37_OrdersCoverGridStepwise ==
    (walk.pattern # "none")
        => /\ Len(walk.order) = 64
           /\ \A n \in GridNotes :
                 Cardinality({i \in 1..Len(walk.order) : walk.order[i] = n}) = 1
           /\ \A i \in 1..(Len(walk.order) - 1) :
                 Adjacent(walk.order[i], walk.order[i + 1])
           /\ (walk.frame # <<>> /\ walk.head_pos <= Len(walk.order))
                 => walk.frame[1].note = walk.order[walk.head_pos]

\* The head of the spiral is on the last cell of its order, the trail on
\* the cells before it.
C37_Witness ==
    /\ walk.pattern = "spiral"
    /\ walk.head_pos = 64
    /\ Len(walk.frame) = 10
    /\ walk.frame[1].note = walk.order[64]
    /\ walk.frame[1].pulse

----------------------------------------------------------------------------
(* Properties of the sparkle pattern *)

====
